---- MODULE Spec2Model ----
(***************************************************************************)
(* Model of the two core subsystems of supernavi_cloud:                    *)
(*   - event ingestion and projection (src/src/sync), in its two variants: *)
(*     "inTx"     projection inside the append transaction (eventStore.ts) *)
(*     "twoPhase" append first, projection afterwards (schemas.ts:127)     *)
(*   - the edge tunnel registry and request multiplexer (connectionManager)*)
(* and of the device pairing routes (src/src/modules/pairing/routes.ts).   *)
(* and of the tar archive extraction of the edge upload api                *)
(* (src/src/modules/edge-api).                                             *)
(* IngestSpec and SyncSpec run the ingestion, ProjectionSpec the           *)
(* projections, TunnelSpec, MuxSpec, DupSpec, RegistrySpec and ProxySpec   *)
(* the tunnel, PairingSpec the pairing, ExtractSpec the extraction.        *)
(***************************************************************************)
EXTENDS Integers, Sequences, FiniteSets, TLC

VARIABLES
    variant,        \* which ingestEvents is deployed: "inTx" or "twoPhase"
    projections,    \* which projections module is deployed: "merge" or "replace"
    eventLog,       \* table events: the committed rows, in insertion order
    readModels,     \* tables cases_read, slides_read, preview_assets (committed)
    call,           \* the ingestEvents calls in flight, by caller
    sockets,        \* the WebSocket transports of /edge/connect, each with the
                    \* timestamps of the EdgeConnection object created for it
    edgeConnections,\* the registry Map, as a set of <<agentId, connection>>
    pending,        \* pendingRequests of each EdgeConnection object
    requests,       \* the sendHttpRequest calls: promise state and timer
    replaced,       \* transports registerEdge found registered and replaced
    config,         \* the environment configuration (src/src/config/index.ts)
    pairing,        \* tables pairing_codes and extension_devices, the clock,
                    \* and the pairing requests in flight
    extraction      \* one slide's cloudStatus, the extractTarArchive run on
                    \* its archive and the last replies of the viewer routes

ingestVars == <<variant, projections, eventLog, readModels, call>>
tunnelVars == <<sockets, edgeConnections, pending, requests, replaced, config>>
vars == <<variant, projections, eventLog, readModels, call,
          sockets, edgeConnections, pending, requests, replaced, config, pairing, extraction>>

----------------------------------------------------------------------------
(* Bounds *)

MaxEventId == 2
MaxBatchLen == 2
MaxSockets == 3
MaxRequests == 2
MaxCodes == 2
MaxClaims == 2
MaxClock == 2

Callers == {1, 2}
AgentIds == {"a1", "a2"}
Sockets == 1..MaxSockets
RequestIds == 1..MaxRequests
EventIds == 1..MaxEventId

----------------------------------------------------------------------------
(* Helpers on sequences and partial functions *)

Range(s) == {s[i] : i \in 1..Len(s)}

SeqsUpTo(S, n) == UNION {[1..k -> S] : k \in 0..n}

RECURSIVE FilterSeq(_, _)
\* s.filter(e => e \in keep) for a set keep of acceptable elements
FilterSeq(s, keep) ==
    IF s = <<>> THEN <<>>
    ELSE IF Head(s) \in keep THEN <<Head(s)>> \o FilterSeq(Tail(s), keep)
         ELSE FilterSeq(Tail(s), keep)

MapIds(s) == [i \in 1..Len(s) |-> s[i].event_id]

Restrict(f, S) == [k \in S |-> f[k]]

----------------------------------------------------------------------------
(* Events and payloads (src/src/sync/schemas.ts)                           *)

Absent == "absent"

\* A path is a sequence of characters; NoPrefix stands for an undefined one.
NoPrefix == <<"absent">>

\* An instant is a positive number; 0 stands for a missing timestamp.
NoPayload ==
    [case_id |-> Absent, slide_id |-> Absent, title |-> Absent, status |-> Absent,
     patient_ref |-> Absent, created_at |-> 0, updated_at |-> 0,
     width |-> 0, height |-> 0, mpp |-> 0, scanner |-> Absent,
     tiles_prefix |-> NoPrefix, low_tiles_prefix |-> NoPrefix]

\* A complete CaseUpserted payload, created and updated at instant 2.
CasePayload(case_id, title) ==
    [NoPayload EXCEPT !.case_id = case_id, !.title = title, !.patient_ref = "pr1",
                      !.created_at = 2, !.updated_at = 2]

\* The payload and type a producer attaches to an event id.
BodyOf(id) ==
    CASE id % 4 = 1 ->
           [type |-> "CaseUpserted",
            payload |-> CasePayload("c1", "t1")]
      [] id % 4 = 2 ->
           [type |-> "SlideRegistered",
            payload |-> [NoPayload EXCEPT !.slide_id = "s1", !.case_id = "c1",
                                          !.width = 1, !.height = 1, !.mpp = 1]]
      [] id % 4 = 3 ->
           [type |-> "CaseUpserted",
            payload |-> [NoPayload EXCEPT !.case_id = "c1"]]
      [] OTHER ->
           [type |-> "PreviewPublished",
            payload |-> [NoPayload EXCEPT !.slide_id = "s1", !.case_id = "c1",
                                          !.tiles_prefix = <<"p">>]]

EventInput(id, edge) ==
    [event_id |-> id, edge_id |-> edge, occurred_at |-> id,
     type |-> BodyOf(id).type, payload |-> BodyOf(id).payload]

\* The origin every batch claims, and the events a batch is made of: each
\* event id under the claimed origin, and event 1 under a foreign one (an
\* event of a foreign origin is rejected whatever its type and payload).
ClaimedEdge == "A"
ForeignEdge == "B"

AllEvents ==
    {EventInput(id, ClaimedEdge) : id \in EventIds} \cup {EventInput(1, ForeignEdge)}

Batches == SeqsUpTo(AllEvents, MaxBatchLen)

caseUpsertedPayloadSchema(p) ==
    /\ p.case_id \notin {Absent, ""}
    /\ p.title # Absent
    /\ p.patient_ref # Absent
    /\ p.status \in {Absent, "active", "archived"}
    /\ p.created_at > 0
    /\ p.updated_at > 0

\* slideRegisteredPayloadSchema without the positivity of the dimensions.
slideRegisteredPayloadSchemaAnyDims(p) ==
    /\ p.slide_id \notin {Absent, ""}
    /\ p.case_id \notin {Absent, ""}

slideRegisteredPayloadSchema(p) ==
    /\ p.slide_id \notin {Absent, ""}
    /\ p.case_id \notin {Absent, ""}
    /\ p.width > 0
    /\ p.height > 0
    /\ p.mpp > 0

previewPublishedPayloadSchema(p) ==
    /\ p.slide_id \notin {Absent, ""}
    /\ p.case_id \notin {Absent, ""}
    /\ p.tiles_prefix # <<>>
    /\ p.low_tiles_prefix # <<>>
    /\ (p.tiles_prefix # NoPrefix \/ p.low_tiles_prefix # NoPrefix)

----------------------------------------------------------------------------
(* Projection engine (src/src/sync/eventStore.ts:158-446)                  *)
(* A projection returns the read models after it, whether it reported      *)
(* success, and whether a storage statement of it threw.                   *)

Null == "null"

EmptyRM == [cases |-> <<>>, slides |-> <<>>, previews |-> <<>>]

Upsert(table, key, row) == (key :> row) @@ table

\* slides_read_case_id_fkey: a slide's case must exist in cases_read.
SlideCaseFkHolds(rm, caseId) == caseId = Null \/ caseId \in DOMAIN rm.cases

\* ensureTrailingSlash that stores the prefix as it was sent.
ensureTrailingSlashAsSent(path) == path

ensureTrailingSlash(path) ==
    IF Len(path) > 0 /\ path[Len(path)] = "/" THEN path ELSE Append(path, "/")

\* projectCaseUpserted whose update writes the created timestamp too.
projectCaseUpsertedReplacing(rm, event) ==
    LET p == event.payload
        status == IF p.status = Absent THEN "active" ELSE p.status
        row == [title |-> p.title, patientRef |-> p.patient_ref, status |-> status,
                createdAt |-> p.created_at, updatedAt |-> p.updated_at,
                lastEventId |-> event.event_id,
                lastOccurredAt |-> event.occurred_at]
    IN  IF ~caseUpsertedPayloadSchema(p)
        THEN [rm |-> rm, success |-> FALSE, threw |-> FALSE]
        ELSE [rm |-> [rm EXCEPT !.cases = Upsert(rm.cases, p.case_id, row)],
              success |-> TRUE, threw |-> FALSE]

projectCaseUpserted(rm, event) ==
    LET p == event.payload
        status == IF p.status = Absent THEN "active" ELSE p.status
        create == [title |-> p.title, patientRef |-> p.patient_ref, status |-> status,
                   createdAt |-> p.created_at, updatedAt |-> p.updated_at,
                   lastEventId |-> event.event_id,
                   lastOccurredAt |-> event.occurred_at]
        row == IF p.case_id \in DOMAIN rm.cases
               THEN [create EXCEPT !.createdAt = rm.cases[p.case_id].createdAt]
               ELSE create
    IN  IF ~caseUpsertedPayloadSchema(p)
        THEN [rm |-> rm, success |-> FALSE, threw |-> FALSE]
        ELSE [rm |-> [rm EXCEPT !.cases = Upsert(rm.cases, p.case_id, row)],
              success |-> TRUE, threw |-> FALSE]

\* projectSlideRegistered whose update writes hasPreview as its create does.
projectSlideRegisteredResetting(rm, event) ==
    LET p == event.payload
        scanner == IF p.scanner = Absent THEN Null ELSE p.scanner
        created == [caseId |-> IF p.case_id = Absent THEN Null ELSE p.case_id,
                    width |-> p.width, height |-> p.height, mpp |-> p.mpp,
                    scanner |-> scanner, hasPreview |-> FALSE,
                    lastEventId |-> event.event_id]
    IN  IF ~slideRegisteredPayloadSchema(p)
        THEN [rm |-> rm, success |-> FALSE, threw |-> FALSE]
        ELSE IF ~SlideCaseFkHolds(rm, created.caseId)
        THEN [rm |-> rm, success |-> FALSE, threw |-> TRUE]
        ELSE [rm |-> [rm EXCEPT !.slides = Upsert(rm.slides, p.slide_id, created)],
              success |-> TRUE, threw |-> FALSE]

projectSlideRegistered(rm, event) ==
    LET p == event.payload
        scanner == IF p.scanner = Absent THEN Null ELSE p.scanner
        created == [caseId |-> IF p.case_id = Absent THEN Null ELSE p.case_id,
                    width |-> p.width, height |-> p.height, mpp |-> p.mpp,
                    scanner |-> scanner, hasPreview |-> FALSE,
                    lastEventId |-> event.event_id]
        old == rm.slides[p.slide_id]
        updated == [caseId |-> IF p.case_id \notin {Absent, ""}
                               THEN p.case_id ELSE old.caseId,
                    width |-> IF p.width > 0 THEN p.width ELSE old.width,
                    height |-> IF p.height > 0 THEN p.height ELSE old.height,
                    mpp |-> IF p.mpp > 0 THEN p.mpp ELSE old.mpp,
                    scanner |-> scanner, hasPreview |-> old.hasPreview,
                    lastEventId |-> event.event_id]
        row == IF p.slide_id \in DOMAIN rm.slides THEN updated ELSE created
    IN  IF ~slideRegisteredPayloadSchema(p)
        THEN [rm |-> rm, success |-> FALSE, threw |-> FALSE]
        ELSE IF ~SlideCaseFkHolds(rm, row.caseId)
        THEN [rm |-> rm, success |-> FALSE, threw |-> TRUE]
        ELSE [rm |-> [rm EXCEPT !.slides = Upsert(rm.slides, p.slide_id, row)],
              success |-> TRUE, threw |-> FALSE]

\* ResolveSlide that takes a slide without preview whenever there is one.
ResolveSlideFirst(rm, p) ==
    LET slidesWithoutPreview ==
            {s \in DOMAIN rm.slides :
                /\ ~rm.slides[s].hasPreview
                /\ (p.case_id \notin {Absent, ""} => rm.slides[s].caseId = p.case_id)}
    IN  IF p.slide_id \in DOMAIN rm.slides THEN p.slide_id
        ELSE IF slidesWithoutPreview # {}
             THEN CHOOSE s \in slidesWithoutPreview : TRUE
             ELSE Null

\* The slide a PreviewPublished payload refers to, or Null.
ResolveSlide(rm, p) ==
    LET slidesWithoutPreview ==
            {s \in DOMAIN rm.slides :
                /\ ~rm.slides[s].hasPreview
                /\ (p.case_id \notin {Absent, ""} => rm.slides[s].caseId = p.case_id)}
    IN  IF p.slide_id \in DOMAIN rm.slides THEN p.slide_id
        ELSE IF Cardinality(slidesWithoutPreview) = 1
             THEN CHOOSE s \in slidesWithoutPreview : TRUE
             ELSE Null

\* projectPreviewPublished that creates a minimal slide, as the earlier
\* module does, when it resolves no slide.
projectPreviewPublishedCreating(rm, event) ==
    LET p == event.payload
        rawTilesPrefix == IF p.tiles_prefix # NoPrefix
                          THEN p.tiles_prefix ELSE p.low_tiles_prefix
        tilesPrefix == ensureTrailingSlash(rawTilesPrefix)
        resolved == ResolveSlide(rm, p)
        target == IF resolved = Null THEN p.slide_id ELSE resolved
        minimal == [caseId |-> p.case_id, width |-> 0, height |-> 0, mpp |-> 0,
                    scanner |-> Null, hasPreview |-> TRUE,
                    lastEventId |-> event.event_id]
        slide == IF resolved = Null THEN minimal
                 ELSE [rm.slides[target] EXCEPT !.hasPreview = TRUE,
                                                !.lastEventId = event.event_id]
        asset == [caseId |-> p.case_id, lowTilesPrefix |-> tilesPrefix,
                  lastEventId |-> event.event_id]
    IN  IF ~previewPublishedPayloadSchema(p)
        THEN [rm |-> rm, success |-> FALSE, threw |-> FALSE]
        ELSE [rm |-> [rm EXCEPT !.slides = Upsert(rm.slides, target, slide),
                                !.previews = Upsert(rm.previews, target, asset)],
              success |-> TRUE, threw |-> FALSE]

\* projectPreviewPublished that prefers the legacy field.
projectPreviewPublishedLegacyFirst(rm, event) ==
    LET p == event.payload
        rawTilesPrefix == IF p.low_tiles_prefix # NoPrefix
                          THEN p.low_tiles_prefix ELSE p.tiles_prefix
        tilesPrefix == ensureTrailingSlash(rawTilesPrefix)
        target == ResolveSlide(rm, p)
        caseId == IF p.case_id # Absent THEN p.case_id ELSE rm.slides[target].caseId
        slide == [rm.slides[target] EXCEPT !.hasPreview = TRUE,
                                           !.lastEventId = event.event_id]
        asset == [caseId |-> caseId, lowTilesPrefix |-> tilesPrefix,
                  lastEventId |-> event.event_id]
    IN  IF ~previewPublishedPayloadSchema(p)
        THEN [rm |-> rm, success |-> FALSE, threw |-> FALSE]
        ELSE IF target = Null
        THEN [rm |-> rm, success |-> TRUE, threw |-> FALSE]
        ELSE [rm |-> [rm EXCEPT !.slides = Upsert(rm.slides, target, slide),
                                !.previews = Upsert(rm.previews, target, asset)],
              success |-> TRUE, threw |-> FALSE]

\* projectPreviewPublished that stores the asset under the payload's slide id.
projectPreviewPublishedUnderPayloadId(rm, event) ==
    LET p == event.payload
        rawTilesPrefix == IF p.tiles_prefix # NoPrefix
                          THEN p.tiles_prefix ELSE p.low_tiles_prefix
        tilesPrefix == ensureTrailingSlash(rawTilesPrefix)
        target == ResolveSlide(rm, p)
        caseId == IF p.case_id # Absent THEN p.case_id ELSE rm.slides[target].caseId
        slide == [rm.slides[target] EXCEPT !.hasPreview = TRUE,
                                           !.lastEventId = event.event_id]
        asset == [caseId |-> caseId, lowTilesPrefix |-> tilesPrefix,
                  lastEventId |-> event.event_id]
    IN  IF ~previewPublishedPayloadSchema(p)
        THEN [rm |-> rm, success |-> FALSE, threw |-> FALSE]
        ELSE IF target = Null
        THEN [rm |-> rm, success |-> TRUE, threw |-> FALSE]
        ELSE [rm |-> [rm EXCEPT !.slides = Upsert(rm.slides, target, slide),
                                !.previews = Upsert(rm.previews, p.slide_id, asset)],
              success |-> TRUE, threw |-> FALSE]

projectPreviewPublished(rm, event) ==
    LET p == event.payload
        rawTilesPrefix == IF p.tiles_prefix # NoPrefix
                          THEN p.tiles_prefix ELSE p.low_tiles_prefix
        tilesPrefix == ensureTrailingSlash(rawTilesPrefix)
        target == ResolveSlide(rm, p)
        caseId == IF p.case_id # Absent THEN p.case_id ELSE rm.slides[target].caseId
        slide == [rm.slides[target] EXCEPT !.hasPreview = TRUE,
                                           !.lastEventId = event.event_id]
        asset == [caseId |-> caseId, lowTilesPrefix |-> tilesPrefix,
                  lastEventId |-> event.event_id]
    IN  IF ~previewPublishedPayloadSchema(p)
        THEN [rm |-> rm, success |-> FALSE, threw |-> FALSE]
        ELSE IF target = Null
        THEN [rm |-> rm, success |-> TRUE, threw |-> FALSE]
        ELSE [rm |-> [rm EXCEPT !.slides = Upsert(rm.slides, target, slide),
                                !.previews = Upsert(rm.previews, target, asset)],
              success |-> TRUE, threw |-> FALSE]

projectEvent(rm, event) ==
    CASE event.type = "CaseUpserted" -> projectCaseUpserted(rm, event)
      [] event.type = "SlideRegistered" -> projectSlideRegistered(rm, event)
      [] event.type = "PreviewPublished" -> projectPreviewPublished(rm, event)
      [] OTHER -> [rm |-> rm, success |-> TRUE, threw |-> FALSE]

----------------------------------------------------------------------------
(* The earlier projections module (src/src/sync/eventStore.ts:468-697):    *)
(* SlideRegistered replaces the row, PreviewPublished creates a minimal    *)
(* slide when it finds none. CaseUpserted is the same in both modules.     *)

projectSlideRegisteredEarlier(rm, event) ==
    LET p == event.payload
        old == rm.slides[p.slide_id]
        row == [caseId |-> p.case_id, width |-> p.width, height |-> p.height,
                mpp |-> p.mpp,
                scanner |-> IF p.scanner = Absent THEN Null ELSE p.scanner,
                hasPreview |-> IF p.slide_id \in DOMAIN rm.slides
                               THEN old.hasPreview ELSE FALSE,
                lastEventId |-> event.event_id]
    IN  IF ~slideRegisteredPayloadSchema(p)
        THEN [rm |-> rm, success |-> FALSE, threw |-> FALSE]
        ELSE IF ~SlideCaseFkHolds(rm, row.caseId)
        THEN [rm |-> rm, success |-> FALSE, threw |-> TRUE]
        ELSE [rm |-> [rm EXCEPT !.slides = Upsert(rm.slides, p.slide_id, row)],
              success |-> TRUE, threw |-> FALSE]

\* The statements run one by one on the client: the slide write stays when
\* the previewAsset.upsert after it throws, which it does when the payload
\* has no low_tiles_prefix for the required column.
projectPreviewPublishedEarlier(rm, event) ==
    LET p == event.payload
        minimal == [caseId |-> p.case_id, width |-> 0, height |-> 0, mpp |-> 0,
                    scanner |-> Null, hasPreview |-> TRUE,
                    lastEventId |-> event.event_id]
        slide == IF p.slide_id \in DOMAIN rm.slides
                 THEN [rm.slides[p.slide_id] EXCEPT !.hasPreview = TRUE,
                                                    !.lastEventId = event.event_id]
                 ELSE minimal
        withSlide == [rm EXCEPT !.slides = Upsert(rm.slides, p.slide_id, slide)]
        asset == [caseId |-> p.case_id, lowTilesPrefix |-> p.low_tiles_prefix,
                  lastEventId |-> event.event_id]
    IN  IF ~previewPublishedPayloadSchema(p)
        THEN [rm |-> rm, success |-> FALSE, threw |-> FALSE]
        ELSE IF p.slide_id \notin DOMAIN rm.slides /\ ~SlideCaseFkHolds(rm, p.case_id)
        THEN [rm |-> rm, success |-> FALSE, threw |-> TRUE]
        ELSE IF p.low_tiles_prefix = NoPrefix
        THEN [rm |-> withSlide, success |-> FALSE, threw |-> TRUE]
        ELSE [rm |-> [withSlide EXCEPT
                        !.previews = Upsert(rm.previews, p.slide_id, asset)],
              success |-> TRUE, threw |-> FALSE]

projectEventEarlier(rm, event) ==
    CASE event.type = "CaseUpserted" -> projectCaseUpserted(rm, event)
      [] event.type = "SlideRegistered" -> projectSlideRegisteredEarlier(rm, event)
      [] event.type = "PreviewPublished" -> projectPreviewPublishedEarlier(rm, event)
      [] OTHER -> [rm |-> rm, success |-> TRUE, threw |-> FALSE]

\* projectEvent of the module that is deployed.
projectDeployed(rm, event) ==
    IF projections = "merge" THEN projectEvent(rm, event)
    ELSE projectEventEarlier(rm, event)

\* The stored events the projection engine is run on: payloads that are
\* complete, partial and invalid, for two slides of one case and one slide
\* of another case.
StoredEvent(id, type, payload) ==
    [event_id |-> id, edge_id |-> "A", occurred_at |-> id, type |-> type,
     payload |-> payload]

ProjectionEvents ==
    {StoredEvent(101, "CaseUpserted", CasePayload("c1", "t1")),
     \* an event that occurred before 101 and carries older timestamps
     [StoredEvent(102, "CaseUpserted",
        [CasePayload("c1", "t2") EXCEPT !.status = "archived", !.patient_ref = "pr2",
                                        !.created_at = 1, !.updated_at = 1])
        EXCEPT !.occurred_at = 100],
     StoredEvent(103, "CaseUpserted", [NoPayload EXCEPT !.case_id = "c1"]),
     StoredEvent(104, "SlideRegistered",
        [NoPayload EXCEPT !.slide_id = "s1", !.case_id = "c1", !.width = 1,
                          !.height = 1, !.mpp = 1, !.scanner = "sc"]),
     StoredEvent(105, "SlideRegistered",
        [NoPayload EXCEPT !.slide_id = "s1", !.case_id = "c1", !.width = 2,
                          !.height = 2, !.mpp = 2]),
     StoredEvent(106, "SlideRegistered",
        [NoPayload EXCEPT !.slide_id = "s1", !.case_id = "c1", !.width = 0,
                          !.height = 1, !.mpp = 1, !.scanner = "sc"]),
     StoredEvent(107, "SlideRegistered",
        [NoPayload EXCEPT !.slide_id = "s2", !.case_id = "c1", !.width = 1,
                          !.height = 1, !.mpp = 1]),
     StoredEvent(108, "PreviewPublished",
        [NoPayload EXCEPT !.slide_id = "s1", !.case_id = "c1",
                          !.tiles_prefix = <<"p">>]),
     StoredEvent(109, "PreviewPublished",
        [NoPayload EXCEPT !.slide_id = "s9", !.case_id = "c1",
                          !.low_tiles_prefix = <<"q", "/">>]),
     StoredEvent(110, "AnnotationCreated", NoPayload),
     StoredEvent(111, "CaseUpserted", CasePayload("c2", "t3")),
     StoredEvent(112, "SlideRegistered",
        [NoPayload EXCEPT !.slide_id = "s3", !.case_id = "c2", !.width = 1,
                          !.height = 1, !.mpp = 1]),
     \* a preview with both prefixes, and one with neither
     StoredEvent(113, "PreviewPublished",
        [NoPayload EXCEPT !.slide_id = "s2", !.case_id = "c1",
                          !.tiles_prefix = <<"t", "/">>,
                          !.low_tiles_prefix = <<"l">>]),
     StoredEvent(114, "PreviewPublished",
        [NoPayload EXCEPT !.slide_id = "s1", !.case_id = "c1"])}

\* The stored event with the given id.
EventById(id) == CHOOSE event \in ProjectionEvents : event.event_id = id

\* projectEvent on the client (schemas.ts:200): the statements are committed
\* as they run.
Project(event) ==
    /\ readModels' = projectDeployed(readModels, event).rm
    /\ UNCHANGED <<variant, projections, eventLog, call, tunnelVars, pairing, extraction>>

----------------------------------------------------------------------------
(* Event store (src/src/sync/eventStore.ts:36-141, schemas.ts:127-226)     *)

IdleCall ==
    [pc |-> "idle", edgeId |-> "A", events |-> <<>>,
     rejected |-> <<>>, validEvents |-> <<>>, duplicated |-> <<>>,
     newEvents |-> <<>>, accepted |-> <<>>, idx |-> 0,
     txRows |-> <<>>, txRM |-> EmptyRM, txAborted |-> FALSE,
     failReason |-> "none", projected |-> <<>>, startedAfter |-> {},
     cursor |-> Absent]

Ended(p) == call[p].pc \in {"done", "failed", "crashed"}

\* An interactive transaction of caller q is open (inTx variant only).
TxOpen(q) == variant = "inTx" /\ call[q].pc \in {"dedup", "insert", "project", "commit"}

LogIds(log) == {log[i].event.event_id : i \in 1..Len(log)}

HasDuplicates(ids) == Cardinality(Range(ids)) < Len(ids)

\* result.rejected: the ids of the events whose edge_id is not the claimed one.
RejectedIds(events, edgeId) ==
    MapIds(FilterSeq(events, {e \in Range(events) : e.edge_id # edgeId}))

\* ValidEvents without the filter: every event goes on.
ValidEventsUnfiltered(events, rejected) == events

\* events.filter(e => !result.rejected.some(r => r.event_id === e.event_id))
ValidEvents(events, rejected) ==
    FilterSeq(events, {e \in Range(events) : e.event_id \notin Range(rejected)})

findExistingEventIds(log, eventIds) == LogIds(log) \cap Range(eventIds)

\* createMany as a row-by-row insert: a failure leaves the first row behind.
createManyRowByRow(table, rows, fault) ==
    LET ids == [i \in 1..Len(rows) |-> rows[i].event.event_id]
        violates == HasDuplicates(ids) \/ LogIds(table) \cap Range(ids) # {}
    IN  IF fault THEN [ok |-> FALSE, reason |-> "fault", table |-> Append(table, rows[1])]
        ELSE IF violates THEN [ok |-> FALSE, reason |-> "unique", table |-> table]
        ELSE [ok |-> TRUE, reason |-> "none", table |-> table \o rows]

\* event.createMany without skipDuplicates on a table with the unique index
\* events_event_id_key: one INSERT statement, all rows or none.
createMany(table, rows, fault) ==
    LET ids == [i \in 1..Len(rows) |-> rows[i].event.event_id]
        violates == HasDuplicates(ids) \/ LogIds(table) \cap Range(ids) # {}
    IN  IF fault THEN [ok |-> FALSE, reason |-> "fault", table |-> table]
        ELSE IF violates THEN [ok |-> FALSE, reason |-> "unique", table |-> table]
        ELSE [ok |-> TRUE, reason |-> "none", table |-> table \o rows]

\* What a statement inside the transaction of p sees (read committed).
TxView(p) ==
    [cases |-> call[p].txRM.cases @@ readModels.cases,
     slides |-> call[p].txRM.slides @@ readModels.slides,
     previews |-> call[p].txRM.previews @@ readModels.previews]

\* The rows of new that the transaction has written: those it wrote before
\* and those that differ from the committed ones.
Written(new, committed, before) ==
    Restrict(new, {k \in DOMAIN new :
                     \/ k \in DOMAIN before
                     \/ k \notin DOMAIN committed
                     \/ new[k] # committed[k]})

TxWrites(p, rm) ==
    [cases |-> Written(rm.cases, readModels.cases, call[p].txRM.cases),
     slides |-> Written(rm.slides, readModels.slides, call[p].txRM.slides),
     previews |-> Written(rm.previews, readModels.previews, call[p].txRM.previews)]

RowKeys(rm) ==
    ({"case"} \X DOMAIN rm.cases) \cup ({"slide"} \X DOMAIN rm.slides)
        \cup ({"preview"} \X DOMAIN rm.previews)

\* POST /sync/v1/events with a body {edge_id, cursor, events}: the handler
\* keeps the cursor for the reply and calls ingestEvents(prisma, edge_id,
\* events), which runs up to its first await: origin check and filter. The
\* callers are interchangeable: they are numbered in the order they start.
PostEvents(p, edgeId, cursor, events) ==
    /\ call[p].pc = "idle"
    /\ \A q \in Callers : q < p => call[q].pc # "idle"
    /\ LET rejected == RejectedIds(events, edgeId)
           validEvents == ValidEvents(events, rejected)
       IN  call' = [call EXCEPT ![p] =
                [@ EXCEPT !.pc = IF events = <<>> \/ validEvents = <<>>
                                 THEN "done" ELSE "dedup",
                          !.edgeId = edgeId,
                          !.events = events,
                          !.rejected = IF events = <<>> THEN <<>> ELSE rejected,
                          !.validEvents = IF events = <<>> THEN <<>> ELSE validEvents,
                          !.startedAfter = {q \in Callers : Ended(q)},
                          !.cursor = cursor]]
    /\ UNCHANGED <<variant, projections, eventLog, readModels, tunnelVars, pairing, extraction>>

\* A request whose body has no cursor.
Start(p, edgeId, events) == PostEvents(p, edgeId, Absent, events)

\* findExistingEventIds and the partition into duplicated and new events.
Dedup(p) ==
    /\ call[p].pc = "dedup"
    /\ LET c == call[p]
           existingIds == findExistingEventIds(eventLog, MapIds(c.validEvents))
           duplicated == MapIds(FilterSeq(c.validEvents,
                            {e \in Range(c.validEvents) : e.event_id \in existingIds}))
           newEvents == FilterSeq(c.validEvents,
                            {e \in Range(c.validEvents) : e.event_id \notin existingIds})
       IN  call' = [call EXCEPT ![p] =
                [@ EXCEPT !.pc = IF newEvents = <<>> THEN "done" ELSE "insert",
                          !.duplicated = duplicated,
                          !.newEvents = newEvents]]
    /\ UNCHANGED <<variant, projections, eventLog, readModels, tunnelVars, pairing, extraction>>

NewRows(p) ==
    [i \in 1..Len(call[p].newEvents) |-> [event |-> call[p].newEvents[i], by |-> p]]

\* event.createMany of the new events. In the inTx variant the rows stay
\* uncommitted, and an insert of an id another open transaction has inserted
\* waits for that transaction to end.
Insert(p, fault) ==
    /\ call[p].pc = "insert"
    /\ \A q \in Callers \ {p} :
          TxOpen(q) => LogIds(call[q].txRows) \cap LogIds(NewRows(p)) = {}
    /\ LET r == createMany(eventLog, NewRows(p), fault)
       IN  IF ~r.ok
           THEN /\ call' = [call EXCEPT ![p] =
                        [@ EXCEPT !.pc = "failed", !.failReason = r.reason]]
                /\ eventLog' = r.table
           ELSE IF variant = "inTx"
           THEN /\ call' = [call EXCEPT ![p] =
                        [@ EXCEPT !.pc = "project", !.idx = 1, !.txRows = NewRows(p)]]
                /\ UNCHANGED eventLog
           ELSE /\ call' = [call EXCEPT ![p] =
                        [@ EXCEPT !.pc = "project", !.idx = 1,
                                  !.accepted = MapIds(call[p].newEvents)]]
                /\ eventLog' = r.table
    /\ UNCHANGED <<variant, projections, readModels, tunnelVars, pairing, extraction>>

\* ProjectTwoPhase whose loop ends at the first projection that fails or
\* throws.
ProjectTwoPhaseStopping(p) ==
    /\ variant = "twoPhase"
    /\ call[p].pc = "project"
    /\ LET c == call[p]
           event == c.newEvents[c.idx]
           r == projectEvent(readModels, event)
       IN  /\ readModels' = r.rm
           /\ call' = [call EXCEPT ![p] =
                [@ EXCEPT !.pc = IF c.idx = Len(c.newEvents) \/ ~r.success
                                 THEN "done" ELSE "project",
                          !.idx = c.idx + 1,
                          !.projected = Append(c.projected, event.event_id)]]
    /\ UNCHANGED <<variant, projections, eventLog, tunnelVars, pairing, extraction>>

\* One iteration of the projection loop of the twoPhase variant.
ProjectTwoPhase(p) ==
    /\ variant = "twoPhase"
    /\ call[p].pc = "project"
    /\ LET c == call[p]
           event == c.newEvents[c.idx]
           r == projectEvent(readModels, event)
       IN  /\ readModels' = r.rm
           /\ call' = [call EXCEPT ![p] =
                [@ EXCEPT !.pc = IF c.idx = Len(c.newEvents) THEN "done" ELSE "project",
                          !.idx = c.idx + 1,
                          !.projected = Append(c.projected, event.event_id)]]
    /\ UNCHANGED <<variant, projections, eventLog, tunnelVars, pairing, extraction>>

\* One iteration of the projection loop of the inTx variant. A statement that
\* fails in the database aborts the transaction: every later statement of it
\* fails too. A row another open transaction has written is locked.
ProjectInTx(p) ==
    /\ variant = "inTx"
    /\ call[p].pc = "project"
    /\ LET c == call[p]
           event == c.newEvents[c.idx]
           r == projectEvent(TxView(p), event)
           writes == TxWrites(p, r.rm)
           ok == ~c.txAborted /\ ~r.threw
       IN  /\ \A q \in Callers \ {p} :
                 (TxOpen(q) /\ ~c.txAborted) =>
                     (RowKeys(writes) \ RowKeys(c.txRM)) \cap RowKeys(call[q].txRM) = {}
           /\ call' = [call EXCEPT ![p] =
                [@ EXCEPT !.pc = IF c.idx = Len(c.newEvents) THEN "commit" ELSE "project",
                          !.idx = c.idx + 1,
                          !.txRM = IF ok THEN writes ELSE c.txRM,
                          !.txAborted = c.txAborted \/ r.threw,
                          !.accepted = Append(c.accepted, event.event_id),
                          !.projected = Append(c.projected, event.event_id)]]
    /\ UNCHANGED <<variant, projections, eventLog, readModels, tunnelVars, pairing, extraction>>

\* The end of prisma.$transaction: COMMIT. On an aborted transaction it rolls
\* back, and the client either reports that or does not.
Commit(p, reported) ==
    /\ variant = "inTx"
    /\ call[p].pc = "commit"
    /\ IF call[p].txAborted
       THEN /\ call' = [call EXCEPT ![p] =
                    [@ EXCEPT !.pc = IF reported THEN "failed" ELSE "done",
                              !.failReason = IF reported THEN "aborted" ELSE "none",
                              !.txRows = <<>>, !.txRM = EmptyRM]]
            /\ UNCHANGED <<eventLog, readModels>>
       ELSE /\ ~reported
            /\ eventLog' = eventLog \o call[p].txRows
            /\ readModels' = TxView(p)
            /\ call' = [call EXCEPT ![p] =
                    [@ EXCEPT !.pc = "done", !.txRows = <<>>, !.txRM = EmptyRM]]
    /\ UNCHANGED <<variant, projections, tunnelVars, pairing, extraction>>

\* The server process stops while the call is suspended at an await.
Crash(p) ==
    /\ call[p].pc \in {"dedup", "insert", "project", "commit"}
    /\ call' = [call EXCEPT ![p] =
            [@ EXCEPT !.pc = "crashed", !.txRows = <<>>, !.txRM = EmptyRM]]
    /\ UNCHANGED <<variant, projections, eventLog, readModels, tunnelVars, pairing, extraction>>

\* POST /sync/v1/events: 200 with the counts, or 500 when ingestEvents throws.
ReplyStatus(p) ==
    CASE call[p].pc = "done" -> 200
      [] call[p].pc = "failed" -> 500
      [] OTHER -> 0

\* buildSyncResponse that leaves the cursor out of the response.
buildSyncResponseNoCursor(storeResult, cursor) ==
    [accepted |-> Len(storeResult.accepted),
     duplicated |-> Len(storeResult.duplicated),
     rejected |-> storeResult.rejected,
     last_cursor |-> Absent]

buildSyncResponse(storeResult, cursor) ==
    [accepted |-> Len(storeResult.accepted),
     duplicated |-> Len(storeResult.duplicated),
     rejected |-> storeResult.rejected,
     last_cursor |-> cursor]

\* The EventStoreResult ingestEvents returns to the handler.
StoreResult(p) ==
    [accepted |-> call[p].accepted, duplicated |-> call[p].duplicated,
     rejected |-> call[p].rejected]

\* The body of the 200 reply of POST /sync/v1/events.
ReplyBody(p) == buildSyncResponse(StoreResult(p), call[p].cursor)

\* The events of the sync scenarios: a case, a slide of it, an event of a
\* type that has no projection, a slide payload that fails validation, and
\* the case event under a foreign origin.
SyncEvents ==
    {StoredEvent(1, "CaseUpserted", CasePayload("c1", "t1")),
     StoredEvent(2, "SlideRegistered",
        [NoPayload EXCEPT !.slide_id = "s1", !.case_id = "c1", !.width = 1,
                          !.height = 1, !.mpp = 1]),
     StoredEvent(5, "AnnotationCreated", NoPayload),
     StoredEvent(6, "SlideRegistered",
        [NoPayload EXCEPT !.slide_id = "s1", !.case_id = "c1", !.width = 0,
                          !.height = 1, !.mpp = 1]),
     [StoredEvent(7, "CaseUpserted", CasePayload("c1", "t1"))
        EXCEPT !.edge_id = ForeignEdge]}

\* Batches of distinct events.
SyncBatches ==
    {b \in SeqsUpTo(SyncEvents, MaxBatchLen) : Cardinality(Range(b)) = Len(b)}

Cursors == {Absent, "k1"}

----------------------------------------------------------------------------
(* Edge tunnel (connectionManager: src/unnamed/part_012:19-233, and the    *)
(* /edge/connect handlers of src/src/modules/edge/routes.ts)               *)

\* The timeouts of the tunnel, in milliseconds.
DefaultTimeoutMs == 8000
EDGE_TUNNEL_HEALTH_TIMEOUT_MS == 2000
EDGE_TUNNEL_TILE_TIMEOUT_MS == 8000

\* text.includes(word), on the pieces of the text
includes(message, word) == \E i \in 1..Len(message) : message[i] = word

NoAgent == "none"

\* The registry Map<string, EdgeConnection>; a connection object is named
\* by the transport it was created for.
MapGet(m, k) == {e[2] : e \in {x \in m : x[1] = k}}
MapSet(m, k, v) == {x \in m : x[1] # k} \cup {<<k, v>>}
MapDelete(m, k) == {x \in m : x[1] # k}

isAgentConnected(agentId) == MapGet(edgeConnections, agentId) # {}

FreshRequest ==
    [state |-> "unused", error |-> "none", agentId |-> NoAgent, conn |-> 0,
     timer |-> FALSE, sent |-> FALSE, settles |-> 0, timeoutMs |-> 0,
     requestId |-> 0]

\* The keys of a connection's pendingRequests map, each with the call that
\* owns the entry: the calls of P whose request id is id.
Keyed(reqs, P, id) == {q \in P : reqs[q].requestId = id}

\* RejectAll that clears the timers and rejects nothing.
RejectAllSilently(reqs, R, error) ==
    [r \in RequestIds |->
        IF r \in R THEN [reqs[r] EXCEPT !.timer = FALSE] ELSE reqs[r]]

\* RejectAll that rejects and leaves the timers armed.
RejectAllKeepingTimers(reqs, R, error) ==
    [r \in RequestIds |->
        IF r \in R
        THEN [reqs[r] EXCEPT !.state = IF @ = "pending" THEN "rejected" ELSE @,
                             !.error = IF reqs[r].state = "pending" THEN error ELSE @,
                             !.settles = @ + 1]
        ELSE reqs[r]]

\* clearTimeout(pending.timer); pending.reject(new Error(error)) for each
\* request of R. Rejecting a settled promise changes nothing.
RejectAll(reqs, R, error) ==
    [r \in RequestIds |->
        IF r \in R
        THEN [reqs[r] EXCEPT !.timer = FALSE,
                             !.state = IF @ = "pending" THEN "rejected" ELSE @,
                             !.error = IF reqs[r].state = "pending" THEN error ELSE @,
                             !.settles = @ + 1]
        ELSE reqs[r]]

\* ws.close(): an open transport starts its closing handshake.
WsClose(socks, S) ==
    [s \in Sockets |->
        IF s \in S /\ socks[s].state = "open"
        THEN [socks[s] EXCEPT !.state = "closing"] ELSE socks[s]]

registerEdge(agentId, ws) ==
    LET existing == MapGet(edgeConnections, agentId)
        stale == UNION {pending[c] : c \in existing}
    IN  /\ sockets' = [WsClose(sockets, existing) EXCEPT
                          ![ws] = [state |-> "open", agentId |-> agentId,
                                   connectedAt |-> pairing.now,
                                   lastSeen |-> pairing.now]]
        /\ requests' = RejectAll(requests, stale, "Connection replaced")
        /\ edgeConnections' = MapSet(edgeConnections, agentId, ws)
        /\ pending' = [pending EXCEPT ![ws] = {}]
        /\ replaced' = replaced \cup existing

\* unregisterEdge that forgets the pending requests of the connection.
unregisterEdgeKeepPending(agentId) ==
    /\ edgeConnections' = MapDelete(edgeConnections, agentId)
    /\ UNCHANGED <<requests, pending, replaced>>

unregisterEdge(agentId) ==
    LET connection == MapGet(edgeConnections, agentId)
        stale == UNION {pending[c] : c \in connection}
    IN  /\ requests' = RejectAll(requests, stale, "Edge disconnected")
        /\ edgeConnections' = MapDelete(edgeConnections, agentId)
        /\ UNCHANGED <<pending, replaced>>

\* updateLastSeen that writes the connect time as well.
updateLastSeenAndConnectedAt(agentId) ==
    LET connection == MapGet(edgeConnections, agentId)
    IN  /\ sockets' = [s \in Sockets |->
                          IF s \in connection
                          THEN [sockets[s] EXCEPT !.lastSeen = pairing.now,
                                                  !.connectedAt = pairing.now]
                          ELSE sockets[s]]
        /\ UNCHANGED <<edgeConnections, pending, requests, replaced>>

\* connection.lastSeen = new Date() for the registered connection of the
\* agent, if any.
updateLastSeen(agentId) ==
    LET connection == MapGet(edgeConnections, agentId)
    IN  /\ sockets' = [s \in Sockets |->
                          IF s \in connection
                          THEN [sockets[s] EXCEPT !.lastSeen = pairing.now]
                          ELSE sockets[s]]
        /\ UNCHANGED <<edgeConnections, pending, requests, replaced>>

\* The token an agent presents, and the secret of the deployment.
TunnelSecret == "secret"
Tokens == {Absent, "", TunnelSecret, "guess"}

\* validateTunnelToken with a fail-open default: no secret, no check.
validateTunnelTokenFailOpen(token) ==
    IF config.EDGE_TUNNEL_TOKEN \in {Absent, ""} THEN TRUE
    ELSE token = config.EDGE_TUNNEL_TOKEN

\* !config.EDGE_TUNNEL_TOKEN holds for undefined and for the empty string.
validateTunnelToken(token) ==
    IF config.EDGE_TUNNEL_TOKEN \in {Absent, ""} THEN FALSE
    ELSE token = config.EDGE_TUNNEL_TOKEN

\* The agent ids a connection attempt may carry in its query, and their
\* characters: the two well-formed ones, none, the empty one, one with a
\* character outside the class, one of 65 characters.
AgentIdInputs == AgentIds \cup {Absent, "", "a/b", "a65"}

MaxAgentIdLen == 64

AgentIdChars(id) ==
    CASE id = "a1" -> <<"a", "1">>
      [] id = "a2" -> <<"a", "2">>
      [] id = "a/b" -> <<"a", "/", "b">>
      [] id = "a65" -> [i \in 1..65 |-> "a"]
      [] OTHER -> <<>>

\* The members of [a-zA-Z0-9_-] the ids above are written with.
WordChars == {"a", "b", "1", "2", "_", "-"}

\* /^[a-zA-Z0-9_-]{1,64}$/.test(agentId)
agentIdFormat(id) ==
    LET chars == AgentIdChars(id)
    IN  /\ Len(chars) >= 1
        /\ Len(chars) <= MaxAgentIdLen
        /\ \A i \in 1..Len(chars) : chars[i] \in WordChars

\* GET /edge/connect: the token and the agent id are validated; a rejected
\* attempt closes the socket and returns before any handler is attached, an
\* admitted one calls registerEdge and attaches the message and close
\* handlers. Sockets are numbered in the order they connect.
EdgeConnect(token, agentId, ws) ==
    /\ sockets[ws].state = "fresh"
    /\ \A s \in Sockets : s < ws => sockets[s].state # "fresh"
    /\ IF \/ ~validateTunnelToken(token)
          \/ agentId \in {Absent, ""}
          \/ ~agentIdFormat(agentId)
       THEN /\ sockets' = [sockets EXCEPT ![ws] =
                                [@ EXCEPT !.state = "closing", !.agentId = NoAgent]]
            /\ UNCHANGED <<edgeConnections, pending, requests, replaced>>
       ELSE registerEdge(agentId, ws)
    /\ UNCHANGED <<ingestVars, config, pairing, extraction>>

\* GET /edge/connect of an agent that presents the configured secret.
Connect(agentId, ws) == EdgeConnect(config.EDGE_TUNNEL_TOKEN, agentId, ws)

\* The peer or the network ends the transport.
PeerClose(ws) ==
    /\ sockets[ws].state = "open"
    /\ sockets' = [sockets EXCEPT ![ws].state = "closing"]
    /\ UNCHANGED <<edgeConnections, pending, requests, replaced, ingestVars, config, pairing, extraction>>

\* socket.on('pong'): the handler updates the agent id it was given. A
\* socket rejected by /edge/connect has no handler.
Pong(ws) ==
    /\ sockets[ws].state \in {"open", "closing"}
    /\ sockets[ws].agentId # NoAgent
    /\ updateLastSeen(sockets[ws].agentId)
    /\ UNCHANGED <<ingestVars, config, pairing, extraction>>

\* socket.on('close'): the handler unregisters the agent id it was given. A
\* socket rejected by /edge/connect has no handler.
CloseEvent(ws) ==
    /\ sockets[ws].state = "closing"
    /\ sockets' = [sockets EXCEPT ![ws].state = "closed"]
    /\ IF sockets[ws].agentId = NoAgent
       THEN UNCHANGED <<edgeConnections, pending, requests, replaced>>
       ELSE unregisterEdge(sockets[ws].agentId)
    /\ UNCHANGED <<ingestVars, config, pairing, extraction>>

\* sendHttpRequest whose catch of a send that throws only rejects.
sendHttpRequestNoCleanup(agentId, r, id, sendThrows, timeoutMs) ==
    /\ requests[r].state = "unused"
    /\ \A q \in RequestIds : q < r => requests[q].state # "unused"
    /\ LET connection == MapGet(edgeConnections, agentId)
       IN  IF connection = {}
           THEN /\ ~sendThrows
                /\ requests' = [requests EXCEPT ![r] =
                        [@ EXCEPT !.state = "rejected", !.error = "not connected",
                                  !.agentId = agentId, !.settles = 1,
                                  !.requestId = id]]
                /\ UNCHANGED pending
           ELSE LET c == CHOOSE c \in connection : TRUE
                IN  /\ sendThrows => sockets[c].state # "open"
                    /\ requests' = [requests EXCEPT ![r] =
                            [@ EXCEPT !.state = IF sendThrows THEN "rejected"
                                                ELSE "pending",
                                      !.error = IF sendThrows
                                                THEN "Failed to send request" ELSE @,
                                      !.settles = IF sendThrows THEN 1 ELSE 0,
                                      !.agentId = agentId,
                                      !.conn = c, !.timer = TRUE,
                                      !.timeoutMs = timeoutMs,
                                      !.sent = sockets[c].state = "open",
                                      !.requestId = id]]
                    /\ pending' = [pending EXCEPT ![c] =
                                        (@ \ Keyed(requests, @, id)) \cup {r}]
    /\ UNCHANGED <<sockets, edgeConnections, replaced, ingestVars, config, pairing, extraction>>

\* sendHttpRequest up to the promise it returns, for call r with request id
\* id: the timer is set to the given timeoutMs, pendingRequests.set(id)
\* replaces an entry the map holds under that id, and a send that throws is
\* followed by clearTimeout and pendingRequests.delete(id). A send on a
\* transport that is not open either throws or is dropped, by the ws version.
sendHttpRequestWithId(agentId, r, id, sendThrows, timeoutMs) ==
    /\ requests[r].state = "unused"
    /\ \A q \in RequestIds : q < r => requests[q].state # "unused"
    /\ LET connection == MapGet(edgeConnections, agentId)
       IN  IF connection = {}
           THEN /\ ~sendThrows
                /\ requests' = [requests EXCEPT ![r] =
                        [@ EXCEPT !.state = "rejected", !.error = "not connected",
                                  !.agentId = agentId, !.settles = 1,
                                  !.requestId = id]]
                /\ UNCHANGED pending
           ELSE LET c == CHOOSE c \in connection : TRUE
                IN  /\ sendThrows => sockets[c].state # "open"
                    /\ IF sendThrows
                       THEN /\ requests' = [requests EXCEPT ![r] =
                                [@ EXCEPT !.state = "rejected",
                                          !.error = "Failed to send request",
                                          !.agentId = agentId, !.conn = c,
                                          !.settles = 1, !.requestId = id]]
                            /\ pending' = [pending EXCEPT ![c] =
                                                @ \ Keyed(requests, @, id)]
                       ELSE /\ requests' = [requests EXCEPT ![r] =
                                [@ EXCEPT !.state = "pending", !.agentId = agentId,
                                          !.conn = c, !.timer = TRUE,
                                          !.timeoutMs = timeoutMs,
                                          !.sent = sockets[c].state = "open",
                                          !.requestId = id]]
                            /\ pending' = [pending EXCEPT ![c] =
                                                (@ \ Keyed(requests, @, id)) \cup {r}]
    /\ UNCHANGED <<sockets, edgeConnections, replaced, ingestVars, config, pairing, extraction>>

\* sendHttpRequest with a request id of its own, as randomUUID() gives the
\* proxy route: the id of call r is r.
sendHttpRequest(agentId, r, sendThrows, timeoutMs) ==
    sendHttpRequestWithId(agentId, r, r, sendThrows, timeoutMs)

\* sendHttpRequest that queues a request for an agent that is not connected.
SendHttpRequestQueued(agentId, r, sendThrows) ==
    /\ requests[r].state = "unused"
    /\ \A q \in RequestIds : q < r => requests[q].state # "unused"
    /\ LET connection == MapGet(edgeConnections, agentId)
       IN  IF connection = {}
           THEN /\ ~sendThrows
                /\ requests' = [requests EXCEPT ![r] =
                        [@ EXCEPT !.state = "pending", !.agentId = agentId,
                                  !.conn = 1, !.timer = TRUE, !.requestId = r]]
                /\ UNCHANGED pending
           ELSE LET c == CHOOSE c \in connection : TRUE
                IN  /\ sendThrows => sockets[c].state # "open"
                    /\ IF sendThrows
                       THEN /\ requests' = [requests EXCEPT ![r] =
                                [@ EXCEPT !.state = "rejected",
                                          !.error = "Failed to send request",
                                          !.agentId = agentId, !.conn = c,
                                          !.settles = 1, !.requestId = r]]
                            /\ UNCHANGED pending
                       ELSE /\ requests' = [requests EXCEPT ![r] =
                                [@ EXCEPT !.state = "pending", !.agentId = agentId,
                                          !.conn = c, !.timer = TRUE,
                                          !.sent = sockets[c].state = "open",
                                          !.requestId = r]]
                            /\ pending' = [pending EXCEPT ![c] = @ \cup {r}]
    /\ UNCHANGED <<sockets, edgeConnections, replaced, ingestVars, config, pairing, extraction>>

\* sendHttpRequest called without a timeout: timeoutMs: number = 8000.
SendHttpRequest(agentId, r, sendThrows) ==
    sendHttpRequest(agentId, r, sendThrows, DefaultTimeoutMs)

\* The proxied urls: the path after /edge/:agentId and the query string, in
\* pieces.
ProxyPaths == {<<"/health">>, <<"/api", "/health">>, <<"/tiles", "/1">>}
ProxyQueries == {<<>>, <<"?next=", "/health">>, <<"?z=", "1">>}

\* url.includes('/health')
isHealthCheck(url) == includes(url, "/health")

\* ANY /edge/:agentId/* for a connected agent, up to the await of
\* sendHttpRequest: the url is the path with the query string, and the
\* timeout is chosen by the url.
ProxyRequest(agentId, r, path, query, sendThrows) ==
    /\ isAgentConnected(agentId)
    /\ LET url == path \o query
           timeoutMs == IF isHealthCheck(url)
                        THEN EDGE_TUNNEL_HEALTH_TIMEOUT_MS
                        ELSE EDGE_TUNNEL_TILE_TIMEOUT_MS
       IN  sendHttpRequest(agentId, r, sendThrows, timeoutMs)

\* The value handleHttpResponse returns: true when the agent has a
\* registered connection with a pending entry for the request id.
handleHttpResponseReturns(agentId, id) ==
    \E c \in MapGet(edgeConnections, agentId) : Keyed(requests, pending[c], id) # {}

\* handleHttpResponse that leaves the entry in the pending map.
handleHttpResponseKeepsEntry(agentId, id) ==
    LET connection == MapGet(edgeConnections, agentId)
    IN  IF \E c \in connection : Keyed(requests, pending[c], id) # {}
        THEN LET c == CHOOSE c \in connection : Keyed(requests, pending[c], id) # {}
                 r == CHOOSE r \in Keyed(requests, pending[c], id) : TRUE
             IN  /\ requests' = [requests EXCEPT ![r] =
                        [@ EXCEPT !.timer = FALSE,
                                  !.state = IF @ = "pending" THEN "resolved" ELSE @,
                                  !.settles = @ + 1]]
                 /\ UNCHANGED pending
        ELSE UNCHANGED <<pending, requests>>

\* handleHttpResponse that looks the request id up in every registered
\* connection.
handleHttpResponseAnyAgent(agentId, id) ==
    LET connection == {e[2] : e \in edgeConnections}
    IN  IF \E c \in connection : Keyed(requests, pending[c], id) # {}
        THEN LET c == CHOOSE c \in connection : Keyed(requests, pending[c], id) # {}
                 r == CHOOSE r \in Keyed(requests, pending[c], id) : TRUE
             IN  /\ pending' = [pending EXCEPT ![c] = @ \ {r}]
                 /\ requests' = [requests EXCEPT ![r] =
                        [@ EXCEPT !.timer = FALSE,
                                  !.state = IF @ = "pending" THEN "resolved" ELSE @,
                                  !.settles = @ + 1]]
        ELSE UNCHANGED <<pending, requests>>

handleHttpResponse(agentId, id) ==
    LET connection == MapGet(edgeConnections, agentId)
    IN  IF \E c \in connection : Keyed(requests, pending[c], id) # {}
        THEN LET c == CHOOSE c \in connection : Keyed(requests, pending[c], id) # {}
                 r == CHOOSE r \in Keyed(requests, pending[c], id) : TRUE
             IN  /\ pending' = [pending EXCEPT ![c] = @ \ {r}]
                 /\ requests' = [requests EXCEPT ![r] =
                        [@ EXCEPT !.timer = FALSE,
                                  !.state = IF @ = "pending" THEN "resolved" ELSE @,
                                  !.settles = @ + 1]]
        ELSE UNCHANGED <<pending, requests>>

\* socket.on('message') with an http_response carrying a request id that
\* some call was issued with.
Message(ws, id) ==
    /\ sockets[ws].state \in {"open", "closing"}
    /\ \E q \in RequestIds : requests[q].requestId = id
    /\ handleHttpResponse(sockets[ws].agentId, id)
    /\ UNCHANGED <<sockets, edgeConnections, replaced, ingestVars, config, pairing, extraction>>

\* The timeout callback without pendingRequests.delete.
TimeoutKeepsEntry(r) ==
    /\ requests[r].timer
    /\ requests' = [requests EXCEPT ![r] =
            [@ EXCEPT !.timer = FALSE,
                      !.state = IF @ = "pending" THEN "rejected" ELSE @,
                      !.error = IF requests[r].state = "pending" THEN "timeout" ELSE @,
                      !.settles = @ + 1]]
    /\ UNCHANGED <<pending, sockets, edgeConnections, replaced, ingestVars, config, pairing, extraction>>

\* The setTimeout callback of sendHttpRequest: it deletes the entry the map
\* of its connection holds under the request id.
Timeout(r) ==
    /\ requests[r].timer
    /\ pending' = [pending EXCEPT ![requests[r].conn] =
                        @ \ Keyed(requests, @, requests[r].requestId)]
    /\ requests' = [requests EXCEPT ![r] =
            [@ EXCEPT !.timer = FALSE,
                      !.state = IF @ = "pending" THEN "rejected" ELSE @,
                      !.error = IF requests[r].state = "pending" THEN "timeout" ELSE @,
                      !.settles = @ + 1]]
    /\ UNCHANGED <<sockets, edgeConnections, replaced, ingestVars, config, pairing, extraction>>

\* The message of the Error a sendHttpRequest call was rejected with, as
\* its words.
errorMessage(req) ==
    CASE req.error = "timeout" -> <<"Request", "timeout", "after", "ms">>
      [] req.error = "Connection replaced" -> <<"Connection", "replaced">>
      [] req.error = "Edge disconnected" -> <<"Edge", "disconnected">>
      [] req.error = "not connected" ->
            <<"Agent", req.agentId, "is", "not", "connected">>
      [] req.error = "Failed to send request" ->
            <<"Failed", "to", "send", "request:", "Error:",
              "WebSocket", "is", "not", "open">>
      [] OTHER -> <<>>

\* The status the agent answers with in the model.
AgentStatus == 200

\* The proxy route without the branch for a lost connection.
proxyStatusNoOffline(r) ==
    LET req == requests[r]
        message == errorMessage(req)
    IN  IF req.error = "not connected" THEN 503
        ELSE IF req.state = "resolved" THEN AgentStatus
        ELSE IF includes(message, "timeout") THEN 504
        ELSE 502

\* ANY /edge/:agentId/*: the status of the reply to the caller of request r.
\* isAgentConnected is tested in the step of the call, before
\* sendHttpRequest, so an agent that is offline then gets the 503 of that test.
proxyStatus(r) ==
    LET req == requests[r]
        message == errorMessage(req)
    IN  IF req.error = "not connected" THEN 503
        ELSE IF req.state = "resolved" THEN AgentStatus
        ELSE IF includes(message, "timeout") THEN 504
        ELSE IF includes(message, "disconnected") \/ includes(message, "replaced")
             THEN 503
        ELSE 502

----------------------------------------------------------------------------
(* Device pairing (src/src/modules/pairing/routes.ts)                      *)
(* Times are in minutes. A column that is null holds <<>>, a column with   *)
(* a value v holds <<v>>. The k-th code generateCode returns is k.         *)

CODE_TTL_MINUTES == 10

Users == {"u1", "u2"}
StartIds == 1..MaxCodes
ClaimIds == 1..MaxClaims
CodeInputs == 1..MaxCodes

IdleStart == [pc |-> "idle", clinicId |-> NoAgent, code |-> <<>>]
IdleClaim == [pc |-> "idle", code |-> <<>>, found |-> <<>>, status |-> 0,
              deviceId |-> <<>>]

InitPairingVars ==
    pairing = [now |-> 0, codes |-> <<>>, devices |-> <<>>,
               starts |-> [s \in StartIds |-> IdleStart],
               claims |-> [c \in ClaimIds |-> IdleClaim]]

\* Time passes.
Tick ==
    /\ pairing.now < MaxClock * CODE_TTL_MINUTES
    /\ pairing' = [pairing EXCEPT !.now = @ + CODE_TTL_MINUTES]
    /\ UNCHANGED <<ingestVars, tunnelVars, extraction>>

\* POST /api/ui-bridge/pairing/start of an authenticated user, up to the
\* end of pairingCode.updateMany: the unused codes of the user expire now.
\* The requests are numbered in the order they arrive.
StartInvalidate(s, clinicId) ==
    /\ pairing.starts[s].pc = "idle"
    /\ \A q \in StartIds : q < s => pairing.starts[q].pc # "idle"
    /\ pairing' = [pairing EXCEPT
            !.codes = [k \in DOMAIN @ |->
                        IF @[k].clinicId = clinicId /\ @[k].usedAt = <<>>
                        THEN [@[k] EXCEPT !.expiresAt = pairing.now]
                        ELSE @[k]],
            !.starts[s] = [@ EXCEPT !.pc = "create", !.clinicId = clinicId]]
    /\ UNCHANGED <<ingestVars, tunnelVars, extraction>>

\* The rest of the start handler: pairingCode.create and the reply.
StartCreate(s) ==
    /\ pairing.starts[s].pc = "create"
    /\ LET code == Len(pairing.codes) + 1
           row == [clinicId |-> pairing.starts[s].clinicId,
                   expiresAt |-> pairing.now + CODE_TTL_MINUTES,
                   usedAt |-> <<>>, deviceId |-> <<>>]
       IN  pairing' = [pairing EXCEPT
                !.codes = Append(@, row),
                !.starts[s] = [@ EXCEPT !.pc = "done", !.code = <<code>>]]
    /\ UNCHANGED <<ingestVars, tunnelVars, extraction>>

\* POST /api/ui-bridge/pairing/claim up to the end of the checks inside the
\* transaction: findUnique and the tests of usedAt and expiresAt. The
\* requests are numbered in the order they arrive.
ClaimFind(c, code) ==
    /\ pairing.claims[c].pc = "idle"
    /\ \A q \in ClaimIds : q < c => pairing.claims[q].pc # "idle"
    /\ LET error == IF code \notin DOMAIN pairing.codes THEN "not_found"
                    ELSE IF pairing.codes[code].usedAt # <<>> THEN "already_used"
                    ELSE IF pairing.codes[code].expiresAt < pairing.now THEN "expired"
                    ELSE "none"
           pairingCode == IF error = "not_found" THEN <<>> ELSE <<pairing.codes[code]>>
       IN  pairing' = [pairing EXCEPT !.claims[c] =
                [@ EXCEPT !.pc = IF error = "none" THEN "create" ELSE "done",
                          !.code = <<code>>,
                          !.found = pairingCode,
                          !.status = CASE error = "none" -> 0
                                       [] error = "not_found" -> 404
                                       [] OTHER -> 410]]
    /\ UNCHANGED <<ingestVars, tunnelVars, extraction>>

\* The rest of the transaction and the reply: extensionDevice.create,
\* pairingCode.update where the id is the one found, COMMIT. The transaction
\* runs at read committed: the update waits for a lock another transaction
\* holds on the row and then writes, whatever the row holds by then.
ClaimCommit(c) ==
    /\ pairing.claims[c].pc = "create"
    /\ LET code == pairing.claims[c].code[1]
           device == [clinicId |-> pairing.claims[c].found[1].clinicId,
                      code |-> code]
           deviceId == Len(pairing.devices) + 1
       IN  pairing' = [pairing EXCEPT
                !.devices = Append(@, device),
                !.codes[code] = [@ EXCEPT !.usedAt = <<pairing.now>>,
                                          !.deviceId = <<deviceId>>],
                !.claims[c] = [@ EXCEPT !.pc = "done", !.status = 200,
                                        !.deviceId = <<deviceId>>]]
    /\ UNCHANGED <<ingestVars, tunnelVars, extraction>>

----------------------------------------------------------------------------
(* Tar archive extraction (src/unnamed/part_004, edge-api/routes.ts)       *)
(* The database is available: every slideRead.update succeeds. The uploads *)
(* of the tiles are taken one after the other; the counters they add to    *)
(* do not depend on their order.                                           *)

MaxTiles == 100
MaxFailed == 2

\* for (let attempt = 1; attempt <= 3; attempt++)
UploadAttempts == 3

\* The number of .jpg entries of the archive.
TileCounts == {0, 1, MaxTiles}

\* The extractor deployed: the streaming one (part_004:269-434) or the
\* earlier one that queues the tiles first (part_004:54-187).
Extractors == {"streaming", "queued"}

DziOk == 200
TileRedirect == 302
NotReady == 404

InitExtraction(extractor) ==
    [extractor |-> extractor, pc |-> "idle", cloudStatus |-> "PROCESSING",
     tiles |-> 0, totalParsed |-> 0, uploaded |-> 0, failed |-> 0, attempt |-> 1,
     dzi |-> 0, tile |-> 0]

\* POST /edge/slides/:slideId/ready in tar archive mode: 409 when the
\* archive is not in the bucket; otherwise the slide is marked EXTRACTING
\* and the extraction starts in the background.
SlideReady(tiles, archiveExists) ==
    /\ extraction.pc = "idle"
    /\ IF ~archiveExists
       THEN UNCHANGED extraction
       ELSE extraction' = [extraction EXCEPT !.cloudStatus = "EXTRACTING",
                                             !.tiles = tiles, !.pc = "get"]
    /\ UNCHANGED <<ingestVars, tunnelVars, pairing>>

\* Step 1: GetObject of the archive; it throws, or returns no body, or
\* returns the stream.
GetArchive(ok) ==
    /\ extraction.pc = "get"
    /\ extraction' = [extraction EXCEPT !.pc = IF ok THEN "parse" ELSE "catch"]
    /\ UNCHANGED <<ingestVars, tunnelVars, pairing>>

\* One PutObject attempt of the next tile. uploadTileWithRetry gives up
\* after the third failed attempt; the earlier extractor then only logs.
UploadAttempt(ok) ==
    /\ extraction.pc = "parse"
    /\ extraction.totalParsed < extraction.tiles
    /\ (~ok /\ extraction.attempt = UploadAttempts) => extraction.failed < MaxFailed
    /\ extraction' =
            IF ok
            THEN [extraction EXCEPT !.totalParsed = @ + 1, !.uploaded = @ + 1,
                                    !.attempt = 1]
            ELSE IF extraction.attempt < UploadAttempts
            THEN [extraction EXCEPT !.attempt = @ + 1]
            ELSE [extraction EXCEPT !.totalParsed = @ + 1, !.failed = @ + 1,
                                    !.attempt = 1]
    /\ UNCHANGED <<ingestVars, tunnelVars, pairing>>

\* extract.on('error', reject): the archive cannot be parsed further.
ParseError ==
    /\ extraction.pc = "parse"
    /\ extraction.attempt = 1
    /\ extraction.totalParsed < extraction.tiles
    /\ extraction' = [extraction EXCEPT !.pc = "catch"]
    /\ UNCHANGED <<ingestVars, tunnelVars, pairing>>

\* await parseComplete; await Promise.all(uploadPromises)
ParseFinish ==
    /\ extraction.pc = "parse"
    /\ extraction.totalParsed = extraction.tiles
    /\ extraction' = [extraction EXCEPT !.pc = "delete"]
    /\ UNCHANGED <<ingestVars, tunnelVars, pairing>>

\* Step 4: DeleteObject of the archive; a failure is logged and ignored.
DeleteArchive(ok) ==
    /\ extraction.pc = "delete"
    /\ extraction' = [extraction EXCEPT !.pc = "mark"]
    /\ UNCHANGED <<ingestVars, tunnelVars, pairing>>

\* failRate > 0.01, with failRate = failed / totalParsed
TooManyFailures(failed, totalParsed) == failed * 100 > totalParsed

\* Step 5: the status the run marks the slide with.
MarkStatus(e) ==
    IF /\ e.extractor = "streaming"
       /\ e.failed > 0
       /\ TooManyFailures(e.failed, e.totalParsed)
    THEN "FAILED"
    ELSE "READY"

Mark ==
    /\ extraction.pc = "mark"
    /\ extraction' = [extraction EXCEPT !.cloudStatus = MarkStatus(extraction),
                                         !.pc = "done"]
    /\ UNCHANGED <<ingestVars, tunnelVars, pairing>>

\* catch (err): the slide is marked FAILED.
Catch ==
    /\ extraction.pc = "catch"
    /\ extraction' = [extraction EXCEPT !.cloudStatus = "FAILED", !.pc = "done"]
    /\ UNCHANGED <<ingestVars, tunnelVars, pairing>>

\* GET /api/v1/slides/:slideId/dzi.xml
GetDzi ==
    /\ extraction' = [extraction EXCEPT !.dzi =
            IF extraction.cloudStatus # "READY" THEN NotReady ELSE DziOk]
    /\ UNCHANGED <<ingestVars, tunnelVars, pairing>>

\* GET /api/v1/tiles/:slideId/:level/:file of a slide that has its s3Prefix
GetTile ==
    /\ extraction' = [extraction EXCEPT !.tile =
            IF extraction.cloudStatus # "READY" THEN NotReady ELSE TileRedirect]
    /\ UNCHANGED <<ingestVars, tunnelVars, pairing>>

----------------------------------------------------------------------------
(* Specifications *)

InitTunnelVars ==
    /\ sockets = [s \in Sockets |-> [state |-> "fresh", agentId |-> NoAgent,
                                     connectedAt |-> 0, lastSeen |-> 0]]
    /\ edgeConnections = {}
    /\ pending = [s \in Sockets |-> {}]
    /\ requests = [r \in RequestIds |-> FreshRequest]
    /\ replaced = {}

InitIngestVars ==
    /\ eventLog = <<>>
    /\ readModels = EmptyRM
    /\ call = [p \in Callers |-> IdleCall]

\* A subsystem that serves no request: it has no request in flight and its
\* tables are empty.
IdleIngestVars ==
    /\ eventLog = <<>>
    /\ readModels = EmptyRM
    /\ call = <<>>

IdleTunnelVars ==
    /\ sockets = <<>>
    /\ edgeConnections = {}
    /\ pending = <<>>
    /\ requests = <<>>
    /\ replaced = {}

IdlePairingVars ==
    pairing = [now |-> 0, codes |-> <<>>, devices |-> <<>>,
               starts |-> <<>>, claims |-> <<>>]

IdleExtractionVars == extraction = <<>>

IngestInit ==
    /\ variant \in {"inTx", "twoPhase"}
    /\ projections = "merge"
    /\ config = [EDGE_TUNNEL_TOKEN |-> TunnelSecret]
    /\ InitIngestVars
    /\ IdleTunnelVars
    /\ IdlePairingVars
    /\ IdleExtractionVars

TunnelInit ==
    /\ variant = "twoPhase"
    /\ projections = "merge"
    /\ config = [EDGE_TUNNEL_TOKEN |-> TunnelSecret]
    /\ IdleIngestVars
    /\ InitTunnelVars
    /\ IdlePairingVars
    /\ IdleExtractionVars

PairingInit ==
    /\ variant = "twoPhase"
    /\ projections = "merge"
    /\ config = [EDGE_TUNNEL_TOKEN |-> TunnelSecret]
    /\ IdleIngestVars
    /\ IdleTunnelVars
    /\ InitPairingVars
    /\ IdleExtractionVars

IngestNext ==
    \E p \in Callers :
        \/ \E events \in Batches : Start(p, ClaimedEdge, events)
        \/ Dedup(p)
        \/ \E fault \in BOOLEAN : Insert(p, fault)
        \/ ProjectTwoPhase(p)
        \/ ProjectInTx(p)
        \/ \E reported \in BOOLEAN : Commit(p, reported)

\* The ingestion on a server that may stop at any await.
IngestCrashNext ==
    \/ IngestNext
    \/ \E p \in Callers : Crash(p)

\* The agent ids are interchangeable: the second one is used only once the
\* first one has been.
KnownAgents ==
    {sockets[s].agentId : s \in Sockets} \cup {requests[r].agentId : r \in RequestIds}

NextAgents == {a \in AgentIds : a = "a1" \/ "a1" \in KnownAgents}

TunnelNext ==
    \/ \E a \in NextAgents, ws \in Sockets : Connect(a, ws)
    \/ \E ws \in Sockets : PeerClose(ws)
    \/ \E ws \in Sockets : CloseEvent(ws)
    \/ \E a \in NextAgents, r \in RequestIds, t \in BOOLEAN : SendHttpRequest(a, r, t)
    \/ \E ws \in Sockets, r \in RequestIds : Message(ws, r)
    \/ \E r \in RequestIds : Timeout(r)

\* The projection engine alone, for either projections module.
ProjectionInit ==
    /\ variant = "twoPhase"
    /\ projections \in {"merge", "replace"}
    /\ config = [EDGE_TUNNEL_TOKEN |-> TunnelSecret]
    /\ IdleIngestVars
    /\ IdleTunnelVars
    /\ IdlePairingVars
    /\ IdleExtractionVars

ProjectionNext == \E event \in ProjectionEvents : Project(event)

ProjectionSpec == ProjectionInit /\ [][ProjectionNext]_vars

IngestSpec == IngestInit /\ [][IngestNext]_vars

\* The sync endpoint serving one request after the other: a second request
\* follows a first one of at most one event.
SyncNext ==
    \E p \in Callers :
        \/ \E cursor \in Cursors, events \in SyncBatches :
                /\ \A q \in Callers : q < p => (Ended(q) /\ Len(call[q].events) <= 1)
                /\ PostEvents(p, ClaimedEdge, cursor, events)
        \/ Dedup(p)
        \/ \E fault \in BOOLEAN : Insert(p, fault)
        \/ ProjectTwoPhase(p)
        \/ ProjectInTx(p)
        \/ \E reported \in BOOLEAN : Commit(p, reported)

SyncSpec == IngestInit /\ [][SyncNext]_vars

IngestCrashSpec == IngestInit /\ [][IngestCrashNext]_vars

TunnelSpec == TunnelInit /\ [][TunnelNext]_vars

\* The request multiplexer, with one transport fewer than the registry above.
MuxSockets == 1..(MaxSockets - 1)

MuxNext ==
    \/ \E a \in NextAgents, ws \in MuxSockets : Connect(a, ws)
    \/ \E ws \in MuxSockets : PeerClose(ws)
    \/ \E ws \in MuxSockets : CloseEvent(ws)
    \/ \E a \in NextAgents, r \in RequestIds, t \in BOOLEAN : SendHttpRequest(a, r, t)
    \/ \E ws \in MuxSockets, r \in RequestIds : Message(ws, r)
    \/ \E r \in RequestIds : Timeout(r)

MuxSpec == TunnelInit /\ [][MuxNext]_vars

\* The reverse proxy route in front of the multiplexer.
ProxyNext ==
    \/ \E a \in NextAgents, ws \in MuxSockets : Connect(a, ws)
    \/ \E ws \in MuxSockets : PeerClose(ws)
    \/ \E ws \in MuxSockets : CloseEvent(ws)
    \/ \E a \in NextAgents, r \in RequestIds, path \in ProxyPaths,
          query \in ProxyQueries, t \in BOOLEAN :
            ProxyRequest(a, r, path, query, t)
    \/ \E ws \in MuxSockets, r \in RequestIds : Message(ws, r)
    \/ \E r \in RequestIds : Timeout(r)

ProxySpec == TunnelInit /\ [][ProxyNext]_vars

\* The multiplexer of one agent called with request ids of the caller's
\* choice, so that calls in flight on one connection may carry the same id
\* (the ids a call may take are those up to its own number).
DupAgent == "a1"

DupNext ==
    \/ \E ws \in MuxSockets : Connect(DupAgent, ws)
    \/ \E ws \in MuxSockets : PeerClose(ws)
    \/ \E ws \in MuxSockets : CloseEvent(ws)
    \/ \E r \in RequestIds, id \in RequestIds, t \in BOOLEAN :
            /\ id <= r
            /\ sendHttpRequestWithId(DupAgent, r, id, t, DefaultTimeoutMs)
    \/ \E ws \in MuxSockets, id \in RequestIds : Message(ws, id)
    \/ \E r \in RequestIds : Timeout(r)

DupSpec == TunnelInit /\ [][DupNext]_vars

\* The registry of two agents with pongs and with calls that all carry the
\* same request id, over two instants: enough to tell a timestamp that was
\* written from one that was left alone.
SharedRequestId == 1

RegistryRequests == 1..(MaxRequests - 1)

RegistryNext ==
    \/ pairing.now = 0 /\ Tick
    \/ \E a \in NextAgents, ws \in MuxSockets : Connect(a, ws)
    \/ \E ws \in MuxSockets : PeerClose(ws)
    \/ \E ws \in MuxSockets : CloseEvent(ws)
    \/ \E ws \in MuxSockets : Pong(ws)
    \/ \E a \in NextAgents, r \in RegistryRequests, t \in BOOLEAN :
            sendHttpRequestWithId(a, r, SharedRequestId, t, DefaultTimeoutMs)
    \/ \E ws \in MuxSockets : Message(ws, SharedRequestId)
    \/ \E r \in RegistryRequests : Timeout(r)

RegistrySpec == TunnelInit /\ [][RegistryNext]_vars

\* A timer that is set fires: the event loop runs every due setTimeout callback.
MuxFairSpec == MuxSpec /\ \A r \in RequestIds : WF_vars(Timeout(r))

\* /edge/connect under every configuration of the secret.
AuthInit ==
    /\ variant = "twoPhase"
    /\ projections = "merge"
    /\ config \in {[EDGE_TUNNEL_TOKEN |-> t] : t \in {Absent, "", TunnelSecret}}
    /\ IdleIngestVars
    /\ InitTunnelVars
    /\ IdlePairingVars
    /\ IdleExtractionVars

AuthNext ==
    \/ \E token \in Tokens, a \in AgentIdInputs, ws \in Sockets :
            EdgeConnect(token, a, ws)
    \/ \E ws \in Sockets : PeerClose(ws)
    \/ \E ws \in Sockets : CloseEvent(ws)

AuthSpec == AuthInit /\ [][AuthNext]_vars

\* The pairing routes under concurrent requests.
PairingNext ==
    \/ Tick
    \/ \E s \in StartIds, u \in Users : StartInvalidate(s, u)
    \/ \E s \in StartIds : StartCreate(s)
    \/ \E c \in ClaimIds, code \in CodeInputs : ClaimFind(c, code)
    \/ \E c \in ClaimIds : ClaimCommit(c)

PairingSpec == PairingInit /\ [][PairingNext]_vars

\* One extraction run under either extractor, and the viewer routes.
ExtractInit ==
    /\ variant = "twoPhase"
    /\ projections = "merge"
    /\ config = [EDGE_TUNNEL_TOKEN |-> TunnelSecret]
    /\ IdleIngestVars
    /\ IdleTunnelVars
    /\ IdlePairingVars
    /\ extraction \in {InitExtraction(extractor) : extractor \in Extractors}

ExtractNext ==
    \/ \E tiles \in TileCounts, archiveExists \in BOOLEAN :
            SlideReady(tiles, archiveExists)
    \/ \E ok \in BOOLEAN : GetArchive(ok)
    \/ \E ok \in BOOLEAN : UploadAttempt(ok)
    \/ ParseError
    \/ ParseFinish
    \/ \E ok \in BOOLEAN : DeleteArchive(ok)
    \/ Mark
    \/ Catch
    \/ GetDzi
    \/ GetTile

ExtractSpec == ExtractInit /\ [][ExtractNext]_vars

----------------------------------------------------------------------------
(* Properties of the ingestion *)

Other(p) == CHOOSE q \in Callers : q # p

\* The ids of the rows caller p has put in the committed event log.
RowsBy(p) == {eventLog[i].event.event_id : i \in {j \in 1..Len(eventLog) : eventLog[j].by = p}}

Occurrences(log, id) == Cardinality({i \in 1..Len(log) : log[i].event.event_id = id})

\* The append of the call failed: a storage fault or the unique index.
AppendFailed(p) == call[p].pc = "failed" /\ call[p].failReason \in {"fault", "unique"}

RECURSIVE ProjectAll(_, _)
\* The read models after projecting the events of a sequence in order.
ProjectAll(rm, events) ==
    IF events = <<>> THEN rm
    ELSE ProjectAll(projectEvent(rm, Head(events)).rm, Tail(events))

\* C1: an event id submitted twice is stored once, the first submission is
\* accepted and the second is reported as duplicated, never as an error of
\* the batch. Stated for a call that runs alone on an empty log, whose batch
\* holds an id twice with the claimed origin, and that meets no storage fault.
C1_IdempotentIngestion ==
    \A p \in Callers :
        ( /\ call[Other(p)].pc = "idle"
          /\ call[p].pc \in {"done", "failed"}
          /\ call[p].failReason # "fault"
          /\ HasDuplicates(MapIds(call[p].validEvents)) )
        => /\ call[p].pc = "done"
           /\ \A id \in Range(MapIds(call[p].validEvents)) :
                 /\ Occurrences(eventLog, id) = 1
                 /\ id \in Range(call[p].accepted)
                 /\ (Occurrences([i \in 1..Len(call[p].validEvents) |->
                                     [event |-> call[p].validEvents[i]]], id) > 1
                        => id \in Range(call[p].duplicated))

\* C3: two concurrent calls that both hold a new event id: the unique index
\* failure of the later insert is treated as a duplicate, so no call whose
\* batch holds each id once fails on the unique index.
C3_ConcurrentRace ==
    \A p \in Callers :
        (call[p].pc = "failed" /\ ~HasDuplicates(MapIds(call[p].validEvents)))
            => call[p].failReason # "unique"

\* C4: when ingestEvents returns, rejected, duplicated and accepted are
\* pairwise disjoint and together count every event of the batch.
C4_ResultPartition ==
    \A p \in Callers :
        call[p].pc = "done" =>
            /\ Len(call[p].accepted) + Len(call[p].duplicated) + Len(call[p].rejected)
                  = Len(call[p].events)
            /\ Range(call[p].accepted) \cap Range(call[p].duplicated) = {}
            /\ Range(call[p].accepted) \cap Range(call[p].rejected) = {}
            /\ Range(call[p].duplicated) \cap Range(call[p].rejected) = {}

\* C5: exactly the events whose origin differs from the claimed one are
\* rejected; every other event of the batch goes on to deduplication.
C5_OriginIsolation ==
    \A p \in Callers :
        call[p].pc # "idle" =>
            /\ call[p].rejected = RejectedIds(call[p].events, call[p].edgeId)
            /\ call[p].validEvents =
                  FilterSeq(call[p].events,
                            {e \in Range(call[p].events) : e.edge_id = call[p].edgeId})

NoEffectOf(p) ==
    LET reported == Range(call[p].rejected) \cup Range(call[p].duplicated)
    IN  /\ Range(call[p].projected) \cap reported = {}
        /\ RowsBy(p) \cap reported = {}
        /\ LogIds(call[p].txRows) \cap reported = {}

\* C6: an event reported as rejected or duplicated is never appended to the
\* event log and never projected, and a step of a call that has no new
\* event leaves the event log and the read models as they are.
C6_OnlyAcceptedHaveEffects ==
    [][ /\ \A p \in Callers : NoEffectOf(p)'
        /\ \A p \in Callers :
              (call'[p] # call[p] /\ call'[p].newEvents = <<>>)
                  => (eventLog' = eventLog /\ readModels' = readModels) ]_vars

C6_Witness ==
    \E p \in Callers :
        /\ call[p].pc = "done"
        /\ call[p].rejected # <<>>
        /\ call[p].duplicated # <<>>
        /\ call[p].newEvents = <<>>
        /\ readModels # EmptyRM

\* C7: when the append of a batch fails, the route answers 500, nothing is
\* accepted, no row of the batch is in the event log and no event of it
\* has been projected.
C7_BatchAtomicity ==
    \A p \in Callers :
        AppendFailed(p) =>
            /\ ReplyStatus(p) = 500
            /\ call[p].accepted = <<>>
            /\ RowsBy(p) = {}
            /\ call[p].projected = <<>>

C7_Witness ==
    \E p \in Callers :
        /\ AppendFailed(p)
        /\ call[p].failReason = "fault"
        /\ Len(call[p].newEvents) > 1
        /\ call[Other(p)].pc = "done"
        /\ call[Other(p)].accepted # <<>>

\* C8: a new event whose projection fails or throws stays in the event log
\* and is accepted, and the call returns normally, in both variants.
C8_ProjectionIsolation ==
    \A p \in Callers :
        (call[p].pc \in {"done", "failed"} /\ call[p].projected # <<>>)
            => /\ call[p].pc = "done"
               /\ Range(call[p].projected) \subseteq Range(call[p].accepted)
               /\ Range(call[p].projected) \subseteq RowsBy(p)

\* C9: after a call has failed or stopped, the same batch submitted again and
\* returning normally leaves every event stored once and the read models
\* as one successful submission leaves them.
C9_RetrySafety ==
    \A p \in Callers :
        LET q == Other(p)
        IN  ( /\ call[p].pc \in {"failed", "crashed"}
              /\ p \in call[q].startedAfter
              /\ call[q].events = call[p].events
              /\ call[q].edgeId = call[p].edgeId
              /\ call[q].pc = "done" )
            => /\ \A id \in Range(MapIds(call[q].validEvents)) :
                     Occurrences(eventLog, id) = 1
               /\ readModels = ProjectAll(EmptyRM, call[q].validEvents)

----------------------------------------------------------------------------
(* Properties of the tunnel *)

\* C2: a connection that replaced another stays usable: a transport that is
\* open and has not itself been replaced is still the registered connection
\* of its agent, also after the close event of the transport it replaced.
C2_TunnelReplacement ==
    \A ws \in Sockets :
        (sockets[ws].state = "open" /\ ws \notin replaced)
            => <<sockets[ws].agentId, ws>> \in edgeConnections

\* C10: each agent id has at most one registered connection, and every
\* other transport that was registered for the id is closed or closing.
C10_OneLiveTransport ==
    \A a \in AgentIds :
        /\ Cardinality(MapGet(edgeConnections, a)) <= 1
        /\ \A c \in MapGet(edgeConnections, a) :
              \A ws \in Sockets \ {c} :
                  sockets[ws].agentId = a => sockets[ws].state # "open"

\* The requests that are pending on one of the connections of C.
PendingOn(C) ==
    {r \in RequestIds : requests[r].state = "pending" /\ requests[r].conn \in C}

Settled(r) == requests[r].state \in {"resolved", "rejected"}

\* C11: the close handler's unregisterEdge(agentId), on a registered agent,
\* removes the agent's registry entry (and no other) and rejects every
\* request pending on that connection with 'Edge disconnected', its timer
\* cancelled; on an agent that is not registered it changes nothing; a
\* request rejected that way is never touched again, by a timeout or otherwise.
C11_Unregister ==
    [][/\ \A ws \in Sockets :
            (CloseEvent(ws) /\ sockets[ws].agentId # NoAgent) =>
                LET a == sockets[ws].agentId
                    connection == MapGet(edgeConnections, a)
                IN  IF connection # {}
                    THEN /\ MapGet(edgeConnections', a) = {}
                         /\ edgeConnections' = {x \in edgeConnections : x[1] # a}
                         /\ \A r \in PendingOn(connection) :
                                /\ requests'[r].state = "rejected"
                                /\ requests'[r].error = "Edge disconnected"
                                /\ ~requests'[r].timer
                         /\ \A r \in RequestIds \ PendingOn(connection) :
                                requests'[r].state = requests[r].state
                    ELSE UNCHANGED <<edgeConnections, pending, requests>>
       /\ \A r \in RequestIds :
            requests[r].error = "Edge disconnected" =>
                /\ requests'[r] = requests[r]
                /\ ~Timeout(r)
      ]_vars

C11_Witness ==
    \E r \in RequestIds :
        /\ requests[r].error = "Edge disconnected"
        /\ ~isAgentConnected(requests[r].agentId)

\* C12: every sendHttpRequest call that is pending is eventually settled,
\* when due timers fire; and a pending request's connection is the registered
\* one of its agent, so that a replacement or an unregistration leaves no
\* request of the connection pending behind it.
C12_EverySendSettles ==
    /\ \A r \in RequestIds : (requests[r].state = "pending") ~> Settled(r)
    /\ [](\A r \in RequestIds :
            requests[r].state = "pending" =>
                /\ <<requests[r].agentId, requests[r].conn>> \in edgeConnections
                /\ requests[r].timer)

C12_Witness ==
    \E r, q \in RequestIds :
        /\ requests[r].state = "rejected" /\ requests[r].error = "Connection replaced"
        /\ requests[q].state = "rejected" /\ requests[q].error = "Edge disconnected"

\* C13: the timeout callback of a pending request rejects it with the timeout
\* error and removes its pending entry; from then on no registered connection
\* holds an entry for the request id, handleHttpResponse returns false for it,
\* and a response message carrying the id changes nothing.
C13_TimeoutThenLateResponse ==
    /\ [](\A r \in RequestIds :
            requests[r].error = "timeout" =>
                /\ requests[r].state = "rejected"
                /\ \A c \in Sockets : r \notin pending[c]
                /\ \A a \in AgentIds : ~handleHttpResponseReturns(a, r))
    /\ [][/\ \A r \in RequestIds :
                (Timeout(r) /\ requests[r].state = "pending") =>
                    /\ requests'[r].state = "rejected"
                    /\ requests'[r].error = "timeout"
                    /\ r \notin pending'[requests[r].conn]
          /\ \A ws \in Sockets, r \in RequestIds :
                (requests[r].error = "timeout" /\ Message(ws, r)) =>
                    UNCHANGED <<requests, pending, edgeConnections, sockets>>
         ]_vars

\* The request timed out while its connection is still open and registered:
\* a late response can arrive.
C13_Witness ==
    \E r \in RequestIds :
        /\ requests[r].error = "timeout"
        /\ requests[r].sent
        /\ sockets[requests[r].conn].state = "open"
        /\ <<requests[r].agentId, requests[r].conn>> \in edgeConnections

\* C14: a response message with request id r, for an agent whose registered
\* connection has r pending, resolves r, cancels its timer and removes its
\* entry, and leaves every other request and every other entry as it was.
C14_ResponseCorrelation ==
    [][\A ws \in Sockets, r \in RequestIds :
            (Message(ws, r) /\ handleHttpResponseReturns(sockets[ws].agentId, r)) =>
                /\ requests[r].state = "pending"
                /\ requests'[r].state = "resolved"
                /\ ~requests'[r].timer
                /\ \A c \in Sockets : r \notin pending'[c]
                /\ \A c \in Sockets : pending'[c] \ {r} = pending[c] \ {r}
                /\ \A q \in RequestIds \ {r} : requests'[q] = requests[q]
      ]_vars

\* A request is resolved while another one of the same connection is pending.
C14_Witness ==
    \E r, q \in RequestIds :
        /\ requests[r].state = "resolved"
        /\ requests[q].state = "pending"
        /\ requests[q].conn = requests[r].conn

\* C15: sendHttpRequest for an agent without a registered connection is
\* rejected in that step with the 'not connected' error, with no pending
\* entry, no timer and nothing sent; the request stays as it is whatever
\* happens later, a connection of that agent included.
C15_AgentNotConnected ==
    [][/\ \A a \in AgentIds, r \in RequestIds, t \in BOOLEAN :
            (SendHttpRequest(a, r, t) /\ ~isAgentConnected(a)) =>
                /\ requests'[r].state = "rejected"
                /\ requests'[r].error = "not connected"
                /\ ~requests'[r].timer
                /\ ~requests'[r].sent
                /\ \A c \in Sockets : r \notin pending'[c]
                /\ UNCHANGED <<pending, sockets, edgeConnections>>
       /\ \A r \in RequestIds :
            requests[r].error = "not connected" => requests'[r] = requests[r]
      ]_vars

\* The agent of a request that failed as not connected has connected since.
C15_Witness ==
    \E r \in RequestIds :
        /\ requests[r].error = "not connected"
        /\ \E ws \in Sockets : /\ sockets[ws].state = "open"
                               /\ <<requests[r].agentId, ws>> \in edgeConnections

\* C16: a connection attempt reaches registerEdge exactly when a secret is
\* configured, the presented token equals it and the agent id is one of the
\* well-formed ones; any other attempt closes the socket and leaves the
\* registry, the pending maps and the requests unchanged; with no secret
\* configured no attempt is admitted.
C16_FailClosedAuth ==
    [][\A token \in Tokens, a \in AgentIdInputs, ws \in Sockets :
            EdgeConnect(token, a, ws) =>
                IF /\ config.EDGE_TUNNEL_TOKEN \notin {Absent, ""}
                   /\ token = config.EDGE_TUNNEL_TOKEN
                   /\ a \in {"a1", "a2"}
                THEN /\ <<a, ws>> \in edgeConnections'
                     /\ sockets'[ws].state = "open"
                ELSE /\ sockets'[ws].state = "closing"
                     /\ UNCHANGED <<edgeConnections, pending, requests>>
      ]_vars

\* No secret is configured and an attempt has been rejected.
C16_Witness ==
    /\ config.EDGE_TUNNEL_TOKEN = Absent
    /\ \E ws \in Sockets : sockets[ws].state \in {"closing", "closed"}

\* C17: a pending request that is rejected in the step in which its
\* connection leaves the registry (replaced or unregistered) gets a message
\* without the word the timeout is recognised by, and the proxy replies 503;
\* one rejected while its connection stays registered has timed out and gets
\* 504; a call rejected at once gets 503 when the agent is offline and 502
\* when the send failed.
C17_DistinguishableFailures ==
    [][\A r \in RequestIds :
        /\ (requests[r].state = "pending" /\ requests'[r].state = "rejected") =>
              IF <<requests[r].agentId, requests[r].conn>> \notin edgeConnections'
              THEN /\ ~includes(errorMessage(requests'[r]), "timeout")
                   /\ proxyStatus(r)' = 503
              ELSE proxyStatus(r)' = 504
        /\ (requests[r].state = "unused" /\ requests'[r].state = "rejected") =>
              IF ~isAgentConnected(requests'[r].agentId)
              THEN proxyStatus(r)' = 503
              ELSE proxyStatus(r)' = 502
      ]_vars

C17_Witness ==
    \E r, q \in RequestIds :
        /\ requests[r].error = "Connection replaced" /\ proxyStatus(r) = 503
        /\ requests[q].error = "timeout" /\ proxyStatus(q) = 504

----------------------------------------------------------------------------
(* Properties of the projection engine *)

\* C18: in every state of the read models and for every event, of each
\* type, projecting the event twice in a row gives the read models that
\* projecting it once gives.
C18_ReprojectionIdempotent ==
    \A event \in ProjectionEvents :
        LET once == projectDeployed(readModels, event).rm
        IN  projectDeployed(once, event).rm = once

\* Read models with two slides and a preview that was matched to a slide by
\* its case: every kind of event has something to act on.
C18_Witness ==
    /\ DOMAIN readModels.slides = {"s1", "s2"}
    /\ \E s \in DOMAIN readModels.previews : readModels.slides[s].lastEventId = 109

\* C19: a SlideRegistered projection whose payload has no scanner leaves the
\* scanner stored for the slide as it was.
C19_ScannerKept ==
    [][\A event \in ProjectionEvents :
        LET id == event.payload.slide_id
        IN  (/\ Project(event)
             /\ event.type = "SlideRegistered"
             /\ event.payload.scanner = Absent
             /\ id \in DOMAIN readModels.slides
             /\ readModels.slides[id].scanner # Null)
                => readModels'.slides[id].scanner = readModels.slides[id].scanner
      ]_vars

\* C20: a SlideRegistered projection on an existing slide changes width,
\* height and mpp only to the payload's value and only when that is positive,
\* changes caseId only to a case id the payload carries, and never turns a
\* positive stored dimension into a non-positive one.
C20_DimensionsMerge ==
    [][\A event \in ProjectionEvents :
        LET id == event.payload.slide_id
            p == event.payload
            old == readModels.slides[id]
            new == readModels'.slides[id]
        IN  (/\ Project(event)
             /\ event.type = "SlideRegistered"
             /\ id \in DOMAIN readModels.slides)
                => /\ new.width # old.width => (p.width > 0 /\ new.width = p.width)
                   /\ new.height # old.height => (p.height > 0 /\ new.height = p.height)
                   /\ new.mpp # old.mpp => (p.mpp > 0 /\ new.mpp = p.mpp)
                   /\ new.caseId # old.caseId =>
                        (p.case_id \notin {Absent, ""} /\ new.caseId = p.case_id)
                   /\ old.width > 0 => new.width > 0
                   /\ old.height > 0 => new.height > 0
                   /\ old.mpp > 0 => new.mpp > 0
      ]_vars

\* The slide was registered with one set of dimensions and then with another.
C20_Witness ==
    /\ "s1" \in DOMAIN readModels.slides
    /\ readModels.slides["s1"].width = 2
    /\ readModels.slides["s1"].lastEventId = 105
    /\ readModels.slides["s1"].hasPreview

C22_OutOfOrderTolerated ==
    [][\A event \in ProjectionEvents :
        LET id == event.payload.slide_id
            result == projectDeployed(readModels, event)
        IN  (/\ Project(event)
             /\ event.type = "PreviewPublished"
             /\ id \notin DOMAIN readModels.slides)
                => /\ ~result.threw
                   /\ result.success
                   /\ projections = "replace" =>
                        /\ id \in DOMAIN readModels'.slides
                        /\ id \in DOMAIN readModels'.previews
                   /\ projections = "merge" =>
                        /\ DOMAIN readModels'.slides = DOMAIN readModels.slides
                        /\ DOMAIN readModels'.previews = DOMAIN readModels.previews
      ]_vars

\* C23: with the current module, projecting CaseUpserted for c1 without a
\* status leaves the case with status "active"; projecting SlideRegistered
\* for the new slide s1 of c1 then leaves s1 with hasPreview false; and
\* projecting PreviewPublished for s1 with a tiles prefix that has no
\* trailing "/" then leaves s1 with hasPreview true and a preview asset of
\* s1 whose tiles prefix ends in "/".
C23_EndToEnd ==
    [][projections = "merge" =>
        /\ Project(EventById(101)) =>
                /\ "c1" \in DOMAIN readModels'.cases
                /\ readModels'.cases["c1"].status = "active"
        /\ (/\ Project(EventById(104))
            /\ "c1" \in DOMAIN readModels.cases
            /\ "s1" \notin DOMAIN readModels.slides) =>
                /\ "s1" \in DOMAIN readModels'.slides
                /\ ~readModels'.slides["s1"].hasPreview
        /\ (/\ Project(EventById(108))
            /\ "s1" \in DOMAIN readModels.slides) =>
                /\ readModels'.slides["s1"].hasPreview
                /\ "s1" \in DOMAIN readModels'.previews
                /\ LET prefix == readModels'.previews["s1"].lowTilesPrefix
                   IN  prefix[Len(prefix)] = "/"
      ]_vars

\* The read models after exactly the three events of the scenario.
C23_Witness ==
    /\ projections = "merge"
    /\ DOMAIN readModels.cases = {"c1"}
    /\ readModels.cases["c1"].lastEventId = 101
    /\ readModels.cases["c1"].status = "active"
    /\ DOMAIN readModels.slides = {"s1"}
    /\ readModels.slides["s1"].lastEventId = 108
    /\ readModels.slides["s1"].scanner = "sc"
    /\ readModels.previews["s1"].lowTilesPrefix = <<"p", "/">>

\* C29: in read models of the current module that hold the case c1 and no
\* slide s1, projecting PreviewPublished for s1 and then SlideRegistered for
\* s1 leaves the slide s1 with hasPreview true and a preview asset of s1, as
\* projecting the two in the normal order does.
C29_InversionResolved ==
    LET preview == EventById(108)
        registered == EventById(104)
        inverted == projectDeployed(projectDeployed(readModels, preview).rm,
                                    registered).rm
        normal == projectDeployed(projectDeployed(readModels, registered).rm,
                                  preview).rm
    IN  (/\ projections = "merge"
         /\ "c1" \in DOMAIN readModels.cases
         /\ "s1" \notin DOMAIN readModels.slides)
            => /\ "s1" \in DOMAIN normal.slides
               /\ normal.slides["s1"].hasPreview
               /\ "s1" \in DOMAIN normal.previews
               /\ "s1" \in DOMAIN inverted.slides
               /\ inverted.slides["s1"].hasPreview
               /\ "s1" \in DOMAIN inverted.previews

----------------------------------------------------------------------------
(* Properties of the sync endpoint *)

KnownTypes == {"CaseUpserted", "SlideRegistered", "PreviewPublished"}

\* C24: an event of a type without projection is projected with success and
\* without any change to the read models, and once the request that brought
\* it as a new event has returned it is in the event log and among the
\* accepted.
C24_UnknownTypes ==
    \A event \in {e \in SyncEvents : e.type \notin KnownTypes} :
        /\ projectEvent(readModels, event).success
        /\ projectEvent(readModels, event).rm = readModels
        /\ \A p \in Callers :
              (call[p].pc = "done" /\ event \in Range(call[p].newEvents))
                  => /\ event.event_id \in Range(call[p].accepted)
                     /\ event.event_id \in LogIds(eventLog)

C30_EveryEventAttempted ==
    \A p \in Callers :
        LET c == call[p]
        IN  /\ c.pc = "project" =>
                c.projected = SubSeq(MapIds(c.newEvents), 1, c.idx - 1)
            /\ c.pc = "done" =>
                /\ c.projected = MapIds(c.newEvents)
                /\ RowsBy(p) \subseteq Range(c.projected)

\* A returned call whose first new event failed validation, or threw on the
\* missing case, and whose second new event was projected into the read
\* models after it.
C30_Witness ==
    \E p \in Callers :
        /\ call[p].pc = "done"
        /\ call[p].projected \in {<<6, 1>>, <<2, 1>>}
        /\ RowsBy(p) = {call[p].projected[1], 1}
        /\ "s1" \notin DOMAIN readModels.slides
        /\ "c1" \in DOMAIN readModels.cases

----------------------------------------------------------------------------
(* Properties of the reverse proxy *)

\* C28: a proxied request whose path contains "/health" gets the health
\* timeout and a request with any other path the tile timeout, whatever its
\* query string is, and that timeout is the one its timer is set to.
C28_TimeoutByPath ==
    [][\A a \in AgentIds, r \in RequestIds, path \in ProxyPaths,
         query \in ProxyQueries, t \in BOOLEAN :
            (ProxyRequest(a, r, path, query, t) /\ requests'[r].timer)
                => requests'[r].timeoutMs =
                        IF includes(path, "/health")
                        THEN EDGE_TUNNEL_HEALTH_TIMEOUT_MS
                        ELSE EDGE_TUNNEL_TILE_TIMEOUT_MS
      ]_vars

----------------------------------------------------------------------------
(* Properties of the device pairing *)

\* C25: for every pairing code at most one claim is answered 200 and at most
\* one device is created; a claim of a code that does not exist is answered
\* 404, and a claim of a code that is used or expired is answered 410 and
\* creates no device.
C25_SingleUse ==
    /\ [](\A code \in CodeInputs :
            /\ Cardinality({c \in ClaimIds :
                    /\ pairing.claims[c].status = 200
                    /\ pairing.claims[c].code = <<code>>}) <= 1
            /\ Cardinality({d \in DOMAIN pairing.devices :
                    pairing.devices[d].code = code}) <= 1)
    /\ [][\A c \in ClaimIds, code \in CodeInputs :
            ClaimFind(c, code) =>
                /\ code \notin DOMAIN pairing.codes => pairing'.claims[c].status = 404
                /\ (/\ code \in DOMAIN pairing.codes
                    /\ \/ pairing.codes[code].usedAt # <<>>
                       \/ pairing.codes[code].expiresAt < pairing.now)
                        => /\ pairing'.claims[c].status = 410
                           /\ pairing'.claims[c].pc = "done"
        ]_vars

\* C26: when no start request is in flight, a user has at most one code
\* that is unused and expires later than now.
C26_OneClaimableCode ==
    (\A s \in StartIds : pairing.starts[s].pc # "create")
        => \A u \in Users :
              Cardinality({k \in DOMAIN pairing.codes :
                    /\ pairing.codes[k].clinicId = u
                    /\ pairing.codes[k].usedAt = <<>>
                    /\ pairing.codes[k].expiresAt > pairing.now}) <= 1

----------------------------------------------------------------------------
(* Properties of the projections, continued                                *)

\* C31: projecting a valid CaseUpserted leaves the Case with the title,
\* patient reference, status, updated timestamp and lastEventId of that
\* event, whatever its occurredAt and payload timestamps, and with the
\* created timestamp the Case already had (that of the event when the Case
\* did not exist).
C31_LastWriterWins ==
    [][\A event \in ProjectionEvents :
          (/\ event.type = "CaseUpserted"
           /\ caseUpsertedPayloadSchema(event.payload)
           /\ Project(event))
          => LET p == event.payload
                 row == readModels'.cases[p.case_id]
             IN  /\ row.title = p.title
                 /\ row.patientRef = p.patient_ref
                 /\ row.status = (IF p.status = Absent THEN "active" ELSE p.status)
                 /\ row.updatedAt = p.updated_at
                 /\ row.lastEventId = event.event_id
                 /\ row.createdAt =
                        IF p.case_id \in DOMAIN readModels.cases
                        THEN readModels.cases[p.case_id].createdAt
                        ELSE p.created_at]_vars

\* The Case created by event 101 carries the older values of event 102,
\* which was projected after it.
C31_Witness ==
    /\ "c1" \in DOMAIN readModels.cases
    /\ readModels.cases["c1"].lastEventId = 102
    /\ readModels.cases["c1"].updatedAt = 1
    /\ readModels.cases["c1"].createdAt = 2
    /\ readModels.cases["c1"].lastOccurredAt = 100

\* C32: with the current module, every PreviewAsset is stored under the id
\* of an existing Slide whose hasPreview is true (the table holds one row per
\* slide id), and a PreviewPublished that resolves its Slide through the case
\* fallback stores the asset under the resolved Slide's id and leaves none
\* under the payload's slide id.
C32_PreviewKeyedBySlide ==
    /\ [](projections = "merge" =>
            \A s \in DOMAIN readModels.previews :
                /\ s \in DOMAIN readModels.slides
                /\ readModels.slides[s].hasPreview)
    /\ [][\A event \in ProjectionEvents :
            LET p == event.payload
                resolved == ResolveSlide(readModels, p)
            IN  (/\ Project(event)
                 /\ projections = "merge"
                 /\ event.type = "PreviewPublished"
                 /\ previewPublishedPayloadSchema(p)
                 /\ p.slide_id \notin DOMAIN readModels.slides
                 /\ resolved # Null)
                => /\ resolved \in DOMAIN readModels'.previews
                   /\ readModels'.previews[resolved].lastEventId = event.event_id
                   /\ p.slide_id \notin DOMAIN readModels'.previews]_vars

\* The preview published for the unknown slide id s9 is the only asset and
\* is stored under s1, beside a second slide that got no asset.
C32_Witness ==
    /\ projections = "merge"
    /\ DOMAIN readModels.previews = {"s1"}
    /\ readModels.previews["s1"].lastEventId = 109
    /\ readModels.slides["s1"].hasPreview
    /\ "s2" \in DOMAIN readModels.slides

\* C33: no projection deletes a Case, a Slide or a PreviewAsset or sets a
\* Slide's hasPreview back to false, and a Slide created by SlideRegistered
\* starts with hasPreview false.
C33_HasPreviewMonotonic ==
    [][/\ DOMAIN readModels.cases \subseteq DOMAIN readModels'.cases
       /\ DOMAIN readModels.slides \subseteq DOMAIN readModels'.slides
       /\ DOMAIN readModels.previews \subseteq DOMAIN readModels'.previews
       /\ \A s \in DOMAIN readModels.slides :
             readModels.slides[s].hasPreview => readModels'.slides[s].hasPreview
       /\ \A event \in ProjectionEvents :
             (Project(event) /\ event.type = "SlideRegistered")
             => \A s \in DOMAIN readModels'.slides \ DOMAIN readModels.slides :
                    ~readModels'.slides[s].hasPreview]_vars

\* Slide s1 was registered again, by event 104, after its preview was
\* published by event 108, and still has its preview.
C33_Witness ==
    /\ "s1" \in DOMAIN readModels.previews
    /\ readModels.previews["s1"].lastEventId = 108
    /\ readModels.slides["s1"].lastEventId = 104
    /\ readModels.slides["s1"].hasPreview

\* C34: with the current module, the asset a valid PreviewPublished stores
\* has the payload's tiles_prefix when that is present and its
\* low_tiles_prefix otherwise, unchanged when it ends in '/' and with a '/'
\* appended when it does not; a payload with neither field fails the
\* projection and changes no read model.
C34_TilesPrefix ==
    /\ [](projections = "merge" =>
            \A event \in ProjectionEvents :
                (/\ event.type = "PreviewPublished"
                 /\ event.payload.tiles_prefix = NoPrefix
                 /\ event.payload.low_tiles_prefix = NoPrefix)
                => ~projectDeployed(readModels, event).success)
    /\ [][\A event \in ProjectionEvents :
            LET p == event.payload
                raw == IF p.tiles_prefix # NoPrefix THEN p.tiles_prefix
                       ELSE p.low_tiles_prefix
                stored == {readModels'.previews[s].lowTilesPrefix :
                             s \in {t \in DOMAIN readModels'.previews :
                                      readModels'.previews[t].lastEventId = event.event_id}}
            IN  (/\ Project(event)
                 /\ projections = "merge"
                 /\ event.type = "PreviewPublished")
                => IF raw = NoPrefix
                   THEN readModels' = readModels
                   ELSE \A prefix \in stored :
                          /\ prefix[Len(prefix)] = "/"
                          /\ raw[Len(raw)] = "/" => prefix = raw
                          /\ raw[Len(raw)] # "/" => prefix = raw \o <<"/">>]_vars

\* Slide s2 holds the asset of event 113, which carried both prefixes, under
\* its tiles_prefix as sent, and slide s1 the asset of event 108 with a '/'
\* appended.
C34_Witness ==
    /\ projections = "merge"
    /\ DOMAIN readModels.previews = {"s1", "s2"}
    /\ readModels.previews["s2"].lastEventId = 113
    /\ readModels.previews["s2"].lowTilesPrefix = <<"t", "/">>
    /\ readModels.previews["s1"].lastEventId = 108
    /\ readModels.previews["s1"].lowTilesPrefix = <<"p", "/">>

----------------------------------------------------------------------------
(* Properties of the request multiplexer, continued                        *)

\* C35: a sendHttpRequest whose send throws ends rejected with the
\* send-failure error, with its timer cancelled and no entry under its id in
\* the pending map; from then on no response is matched to it and no step
\* changes it.
C35_SendFailureCleanup ==
    /\ [](\A r \in RequestIds :
            requests[r].error = "Failed to send request" =>
                /\ requests[r].state = "rejected"
                /\ requests[r].settles = 1
                /\ ~requests[r].timer
                /\ \A c \in Sockets : r \notin pending[c]
                /\ \A a \in AgentIds : ~handleHttpResponseReturns(a, r))
    /\ [][/\ \A a \in AgentIds, r \in RequestIds :
                SendHttpRequest(a, r, TRUE) =>
                    /\ requests'[r].state = "rejected"
                    /\ requests'[r].error = "Failed to send request"
                    /\ ~requests'[r].timer
                    /\ \A c \in Sockets : r \notin pending'[c]
          /\ \A r \in RequestIds :
                requests[r].error = "Failed to send request" =>
                    requests'[r] = requests[r]
         ]_vars

\* A send failed on a registered connection that holds a pending request
\* sent before its transport began to close, and that request has since
\* been resolved.
C35_Witness ==
    \E r, q \in RequestIds :
        /\ requests[r].error = "Failed to send request"
        /\ <<requests[r].agentId, requests[r].conn>> \in edgeConnections
        /\ requests[q].conn = requests[r].conn
        /\ requests[q].state = "resolved"

\* C36: whatever the interleaving of responses, timeouts, send failures,
\* replacements and unregistrations, and whatever ids the calls carry, the
\* resolve and reject functions of a sendHttpRequest call are called at most
\* once in all: a call is resolved, without error, or rejected, with one
\* error, and once settled it stays as it is.
C36_SettledOnce ==
    /\ [](\A r \in RequestIds :
            /\ requests[r].settles <= 1
            /\ requests[r].settles = 1 <=> requests[r].state \in {"resolved", "rejected"}
            /\ requests[r].state = "resolved" => requests[r].error = "none"
            /\ requests[r].state = "rejected" => requests[r].error # "none")
    /\ [][\A r \in RequestIds :
            requests[r].state \in {"resolved", "rejected"} =>
                /\ requests'[r].state = requests[r].state
                /\ requests'[r].error = requests[r].error]_vars

\* Two calls were in flight with the same request id on one connection; one
\* was resolved by the response and the other rejected by its timeout.
C36_Witness ==
    \E r, q \in RequestIds :
        /\ r # q
        /\ requests[r].requestId = requests[q].requestId
        /\ requests[r].conn = requests[q].conn
        /\ requests[r].sent /\ requests[q].sent
        /\ requests[r].state = "resolved"
        /\ requests[q].error = "timeout"

\* C37: every entry of the pending map of a registered connection belongs to
\* a call that is not settled and whose timer is armed, the map holds one
\* entry per request id, and when a response, a timeout or a send failure
\* settles a call, the map of its connection holds no entry under its id.
C37_NoPendingLeak ==
    /\ [](\A e \in edgeConnections :
            /\ \A r \in pending[e[2]] :
                    /\ requests[r].state = "pending"
                    /\ requests[r].settles = 0
                    /\ requests[r].timer
                    /\ requests[r].conn = e[2]
            /\ \A id \in RequestIds :
                    Cardinality(Keyed(requests, pending[e[2]], id)) <= 1)
    /\ [][\A r \in RequestIds :
            (/\ requests[r].state \in {"unused", "pending"}
             /\ requests'[r].state \in {"resolved", "rejected"}
             /\ requests'[r].error \in {"none", "timeout", "Failed to send request"})
            => Keyed(requests', pending'[requests'[r].conn], requests'[r].requestId) = {}
      ]_vars

\* A call was resolved by the response while the call that had been in
\* flight with the same request id on the connection, still registered, is
\* unsettled with its timer armed and has no entry.
C37_Witness ==
    \E r, q \in RequestIds :
        /\ r # q
        /\ requests[r].requestId = requests[q].requestId
        /\ requests[r].conn = requests[q].conn
        /\ <<requests[r].agentId, requests[r].conn>> \in edgeConnections
        /\ requests[r].state = "resolved"
        /\ requests[q].state = "pending" /\ requests[q].timer
        /\ pending[requests[r].conn] = {}

----------------------------------------------------------------------------
(* Properties of the registry                                              *)

\* The connection registered for agent id b, its transport, its timestamps,
\* its pending map and the calls in that map are left as they are.
ConnectionUntouched(b) ==
    /\ MapGet(edgeConnections', b) = MapGet(edgeConnections, b)
    /\ \A c \in MapGet(edgeConnections, b) :
            /\ sockets'[c] = sockets[c]
            /\ pending'[c] = pending[c]
            /\ \A r \in pending[c] : requests'[r] = requests[r]

C39_ConnectednessByRegistry ==
    [][/\ \A a \in AgentIds :
            (MapGet(edgeConnections, a) = {} /\ MapGet(edgeConnections', a) # {})
            => \E ws \in Sockets : Connect(a, ws)
       /\ \A a \in AgentIds :
            (MapGet(edgeConnections, a) # {} /\ MapGet(edgeConnections', a) = {})
            => \E ws \in Sockets : sockets[ws].agentId = a /\ CloseEvent(ws)
       /\ \/ /\ edgeConnections' = edgeConnections
             /\ \A s \in Sockets :
                    /\ sockets'[s].state = sockets[s].state
                    /\ sockets'[s].agentId = sockets[s].agentId
                    /\ sockets'[s].connectedAt = sockets[s].connectedAt
          \/ ~ \/ Tick
               \/ \E ws \in Sockets : Pong(ws) \/ Message(ws, SharedRequestId)
               \/ \E a \in AgentIds, r \in RequestIds, t \in BOOLEAN :
                    sendHttpRequestWithId(a, r, SharedRequestId, t, DefaultTimeoutMs)
               \/ \E r \in RequestIds : Timeout(r)
       /\ \A ws \in Sockets :
            Pong(ws) =>
                /\ UNCHANGED <<pending, requests>>
                /\ \A s \in Sockets :
                        \/ sockets'[s] = sockets[s]
                        \/ /\ <<sockets[ws].agentId, s>> \in edgeConnections
                           /\ sockets'[s] = [sockets[s] EXCEPT !.lastSeen = pairing.now]
      ]_vars

\* A connection registered at the first instant is still registered, with
\* its connect time, after it resolved a call and saw a pong at the second
\* instant.
C39_Witness ==
    \E e \in edgeConnections, r \in RequestIds :
        /\ pairing.now > 0
        /\ sockets[e[2]].connectedAt = 0
        /\ sockets[e[2]].lastSeen = pairing.now
        /\ requests[r].conn = e[2]
        /\ requests[r].state = "resolved"

----------------------------------------------------------------------------
(* Properties of the tar archive extraction                                *)

\* C40: an extraction run that has ended has moved the slide from
\* EXTRACTING to READY or to FAILED, to READY only when every tile of the
\* archive was uploaded; and the viewer routes answer with the DZI or the
\* tile only for a slide that is READY.
C40_ExtractionOutcome ==
    /\ extraction.pc \in {"get", "parse", "delete", "mark", "catch"}
            => extraction.cloudStatus = "EXTRACTING"
    /\ extraction.pc = "done" => extraction.cloudStatus \in {"READY", "FAILED"}
    /\ (extraction.pc = "done" /\ extraction.cloudStatus = "READY")
            => extraction.uploaded = extraction.tiles
    /\ extraction.dzi = DziOk => extraction.cloudStatus = "READY"
    /\ extraction.tile = TileRedirect => extraction.cloudStatus = "READY"

====
